---- MODULE Spec2Model ----
(***************************************************************************)
(* A model of the Roblox .rbxl extractor: the structured binary parser     *)
(* (src/src/rbxl_extractor/rbx_binary_parser.py) and the heuristic         *)
(* scavenger and orchestrator (src/src/rbxl_extractor/binary_extractor.py).*)
(*                                                                         *)
(* Bytes are the integers 0..255 and a buffer is a sequence of bytes.      *)
(* A Python str is a sequence of code points.  Positions are 0-based, as   *)
(* in the source; a TLA+ sequence is 1-based, so data[pos] of the source   *)
(* is data[pos + 1] here.                                                  *)
(***************************************************************************)
EXTENDS Integers, Sequences, FiniteSets, TLC

VARIABLES
    input,     \* how the input buffer was made (file, prefix, corruption)
    pc,        \* the position of the running operation
    data,      \* the input buffer handed to parse / extract_from_bytes
    parser,    \* the RBXBinaryParser object (reader, instances, root, ...)
    trail,     \* history of the chunk loop, one record per chunk read
    fs,        \* the filesystem sink: directories created and files written
    options,   \* the options dictionary of the orchestrator
    work,      \* the locals of the running heuristic operation
    result     \* the value the running operation returns / has built so far

vars == <<input, pc, data, parser, trail, fs, options, work, result>>

----------------------------------------------------------------------------
(* Generic helpers: Python slicing, bytes.find, startswith.                *)

Min(a, b) == IF a <= b THEN a ELSE b

Max(a, b) == IF a >= b THEN a ELSE b

\* A value that stands for "at least 2^30": larger than every buffer of the
\* model.  u32 and varint values are only ever compared with buffer lengths,
\* used as loop counts or added to positions, so saturating them here does
\* not change any branch the code takes.
Big == 2^30

\* s[a:b] of Python for 0 <= a.
Slice(s, a, b) ==
    LET hi == Min(b, Len(s))
    IN  IF a >= hi THEN <<>> ELSE SubSeq(s, a + 1, hi)

StartsWith(s, pre) ==
    Len(s) >= Len(pre) /\ SubSeq(s, 1, Len(pre)) = pre

\* s.find(pat, from): the least index >= from at which pat occurs, else -1.
Find(s, pat, from) ==
    LET hits == {i \in from .. (Len(s) - Len(pat)) :
                     SubSeq(s, i + 1, i + Len(pat)) = pat}
    IN  IF hits = {} THEN -1
        ELSE CHOOSE i \in hits : \A j \in hits : i <= j

Contains(s, pat) ==
    \E i \in 0 .. (Len(s) - Len(pat)) :
        \A k \in 1 .. Len(pat) : s[i + k] = pat[k]

RECURSIVE Concat(_)
Concat(ss) ==
    IF ss = <<>> THEN <<>> ELSE Head(ss) \o Concat(Tail(ss))

\* The elements of s that satisfy Keep, in order.
KeepIf(s, Keep(_)) == SelectSeq(s, Keep)

Range(s) == {s[i] : i \in 1 .. Len(s)}

----------------------------------------------------------------------------
(* zlib and gzip, as the parser uses them.  DEFLATE is decoded bit by bit  *)
(* for stored blocks and fixed-Huffman blocks; a dynamic-Huffman block is  *)
(* outside the model ("unmodelled").                                       *)

\* Bit k (0-based, least significant bit of each byte first) of buffer d.
Bit(d, k) == (d[(k \div 8) + 1] \div (2 ^ (k % 8))) % 2

\* n bits from bit position bp read as an integer, first bit least significant
\* (DEFLATE's header and extra-bits fields).
RECURSIVE BitsLsb(_, _, _)
BitsLsb(d, bp, n) ==
    IF n = 0 THEN 0 ELSE Bit(d, bp) + 2 * BitsLsb(d, bp + 1, n - 1)

\* n bits from bp read as a Huffman code, first bit most significant.
RECURSIVE BitsMsb(_, _, _)
BitsMsb(d, bp, n) ==
    IF n = 0 THEN 0
    ELSE Bit(d, bp) * (2 ^ (n - 1)) + BitsMsb(d, bp + 1, n - 1)

\* The symbol of the fixed literal/length code at bp: [ok, sym, bp].
FixedSymbol(d, bp) ==
    LET n  == 8 * Len(d)
        c7 == BitsMsb(d, bp, 7)
        c8 == BitsMsb(d, bp, 8)
        c9 == BitsMsb(d, bp, 9)
    IN  IF bp + 7 > n THEN [ok |-> FALSE, sym |-> 0, bp |-> bp]
        ELSE IF c7 <= 23 THEN [ok |-> TRUE, sym |-> 256 + c7, bp |-> bp + 7]
        ELSE IF bp + 8 > n THEN [ok |-> FALSE, sym |-> 0, bp |-> bp]
        ELSE IF c8 >= 48 /\ c8 <= 191
             THEN [ok |-> TRUE, sym |-> c8 - 48, bp |-> bp + 8]
        ELSE IF c8 >= 192 /\ c8 <= 199
             THEN [ok |-> TRUE, sym |-> 280 + (c8 - 192), bp |-> bp + 8]
        ELSE IF bp + 9 > n THEN [ok |-> FALSE, sym |-> 0, bp |-> bp]
        ELSE [ok |-> TRUE, sym |-> 144 + (c9 - 400), bp |-> bp + 9]

\* Length base and extra-bit count of length symbol s in 257..285.
LenExtra(s) == IF s <= 264 \/ s = 285 THEN 0 ELSE (s - 261) \div 4

LenBase(s) ==
    IF s <= 264 THEN s - 254
    ELSE IF s = 285 THEN 258
    ELSE 3 + (4 + ((s - 261) % 4)) * (2 ^ ((s - 261) \div 4))

\* Distance base and extra-bit count of distance code c in 0..29.
DistExtra(c) == IF c <= 3 THEN 0 ELSE (c \div 2) - 1

DistBase(c) ==
    IF c <= 3 THEN c + 1 ELSE 1 + (2 + (c % 2)) * (2 ^ ((c \div 2) - 1))

\* len bytes copied from dist bytes back in out (the copy may overlap itself).
CopyBack(out, dist, len) ==
    out \o [i \in 1 .. len |-> out[Len(out) - dist + 1 + ((i - 1) % dist)]]

\* One symbol of a fixed-Huffman block: from [st, bp, out] with st "run"
\* to the state after the symbol at bp; st becomes "end" at the end-of-block
\* symbol and "error" where inflate fails.  A state that is not "run" stays.
FixedStep(d, s) ==
    LET n == 8 * Len(d)
        bad == [s EXCEPT !.st = "error"]
        copy(p2, dist, len) ==
            IF dist > Len(s.out) THEN bad
            ELSE [st |-> "run", bp |-> p2, out |-> CopyBack(s.out, dist, len)]
        distance(p1, len, dc) ==
            IF dc >= 30 \/ p1 + 5 + DistExtra(dc) > n THEN bad
            ELSE copy(p1 + 5 + DistExtra(dc),
                      DistBase(dc) + BitsLsb(d, p1 + 5, DistExtra(dc)), len)
        length(y, p1) ==
            IF p1 + 5 > n THEN bad
            ELSE distance(p1, LenBase(y.sym) + BitsLsb(d, y.bp, LenExtra(y.sym)),
                          BitsMsb(d, p1, 5))
        symbol(y) ==
            IF ~y.ok THEN bad
            ELSE IF y.sym < 256
                 THEN [st |-> "run", bp |-> y.bp, out |-> Append(s.out, y.sym)]
            ELSE IF y.sym = 256 THEN [st |-> "end", bp |-> y.bp, out |-> s.out]
            ELSE IF y.sym > 285 THEN bad
            ELSE length(y, y.bp + LenExtra(y.sym))
    IN  IF s.st # "run" THEN s ELSE symbol(FixedSymbol(d, s.bp))

\* k symbols one after the other (by halves, to keep the evaluation flat).
RECURSIVE FixedRun(_, _, _)
FixedRun(d, s, k) ==
    IF k <= 1 THEN FixedStep(d, s)
    ELSE CHOOSE last \in {FixedRun(d, half, k - (k \div 2)) :
                          half \in {FixedRun(d, s, k \div 2)}} : TRUE

\* The symbols of one fixed-Huffman block from bp: [st, bp, out] with st
\* "end" (end-of-block seen) or "error".  Every symbol takes at least seven
\* bits, which bounds the number of symbols.
FixedBlock(d, bp, out) ==
    LET done(s) == IF s.st = "run" THEN [s EXCEPT !.st = "error"] ELSE s
    IN  done(FixedRun(d, [st |-> "run", bp |-> bp, out |-> out],
                      ((8 * Len(d)) \div 7) + 1))

\* One block of a DEFLATE stream: from [st, bp, out] with st "run" to the
\* state after the block at bp; st becomes "ok" after a final block,
\* "error" where inflate fails, "unmodelled" at a dynamic-Huffman block.
BlockStep(d, s) ==
    LET n      == 8 * Len(d)
        q      == (s.bp + 3 + 7) \div 8
        bad    == [s EXCEPT !.st = "error"]
        stored(bfinal, len, nlen) ==
            IF len + nlen # 65535 THEN bad
            ELSE IF q + 4 + len > Len(d) THEN bad
            ELSE [st |-> IF bfinal = 1 THEN "ok" ELSE "run",
                  bp |-> 8 * (q + 4 + len),
                  out |-> s.out \o Slice(d, q + 4, q + 4 + len)]
        fixed(bfinal, b) ==
            IF b.st # "end" THEN bad
            ELSE [st |-> IF bfinal = 1 THEN "ok" ELSE "run",
                  bp |-> b.bp, out |-> b.out]
        block(bfinal, btype) ==
            IF btype = 0 THEN
                IF q + 4 > Len(d) THEN bad
                ELSE stored(bfinal, d[q + 1] + 256 * d[q + 2],
                            d[q + 3] + 256 * d[q + 4])
            ELSE IF btype = 1 THEN fixed(bfinal, FixedBlock(d, s.bp + 3, s.out))
            ELSE IF btype = 2 THEN [s EXCEPT !.st = "unmodelled"]
            ELSE bad
    IN  IF s.st # "run" THEN s
        ELSE IF s.bp + 3 > n THEN bad
        ELSE block(Bit(d, s.bp), BitsLsb(d, s.bp + 1, 2))

\* k blocks one after the other (by halves).
RECURSIVE BlockRun(_, _, _)
BlockRun(d, s, k) ==
    IF k <= 1 THEN BlockStep(d, s)
    ELSE CHOOSE last \in {BlockRun(d, half, k - (k \div 2)) :
                          half \in {BlockRun(d, s, k \div 2)}} : TRUE

\* A raw DEFLATE stream from bit bp: [st, bp, out] with st "ok" (a final
\* block ended; bytes after it are ignored), "error", or "unmodelled".  A
\* block takes at least ten bits, which bounds the number of blocks.
InflateBlocks(d, bp, out) ==
    LET done(s) == IF s.st = "run" THEN [s EXCEPT !.st = "error"] ELSE s
    IN  done(BlockRun(d, [st |-> "run", bp |-> bp, out |-> out],
                      ((8 * Len(d)) \div 10) + 1))

\* zlib.decompress(d, -15): raw DEFLATE.
RawInflate(d) == InflateBlocks(d, 0, <<>>)

\* Loops over a buffer are run by halves: k turns are k \div 2 turns and
\* then the rest, the first half bound to a value before the second
\* starts.  A loop that has ended (or raised) stays where it is.

\* The sum of s[lo .. hi], by halves.
RECURSIVE SumSeq(_, _, _)
SumSeq(s, lo, hi) ==
    IF lo > hi THEN 0
    ELSE IF lo = hi THEN s[lo]
    ELSE SumSeq(s, lo, (lo + hi) \div 2) + SumSeq(s, ((lo + hi) \div 2) + 1, hi)

\* The two halves of Adler-32 of out: <<b, a>> (the checksum is b * 65536 + a):
\* a is 1 plus the sum of the bytes, b the sum of the successive values of a.
AdlerSums(out) ==
    LET n == Len(out)
        weighted == [i \in 1 .. n |-> (n - i + 1) * out[i]]
    IN  <<(n + SumSeq(weighted, 1, n)) % 65521, (1 + SumSeq(out, 1, n)) % 65521>>

\* zlib.decompress(d): a two-byte zlib header, a DEFLATE stream, and the
\* big-endian Adler-32 of the output.
ZlibInflate(d) ==
    LET bad == [st |-> "error", bp |-> 0, out |-> <<>>]
        trailer(r, q, sums) ==
            IF q + 4 > Len(d) THEN bad
            ELSE IF d[q + 1] * 256 + d[q + 2] # sums[1] THEN bad
            ELSE IF d[q + 3] * 256 + d[q + 4] # sums[2] THEN bad
            ELSE r
        stream(r) ==
            IF r.st # "ok" THEN r
            ELSE trailer(r, (r.bp + 7) \div 8, AdlerSums(r.out))
    IN  IF Len(d) < 2 THEN bad
        ELSE IF (d[1] * 256 + d[2]) % 31 # 0 THEN bad
        ELSE IF d[1] % 16 # 8 THEN bad
        ELSE IF d[1] \div 16 > 7 THEN bad
        ELSE IF (d[2] \div 32) % 2 = 1 THEN bad
        ELSE stream(InflateBlocks(d, 16, <<>>))

\* x XOR y for 0 <= x, y < 2^16.
RECURSIVE Xor(_, _)
Xor(x, y) ==
    IF x = 0 THEN y
    ELSE IF y = 0 THEN x
    ELSE ((x + y) % 2) + 2 * Xor(x \div 2, y \div 2)

\* CRC-32 (polynomial EDB88320) on the halves <<high 16 bits, low 16 bits>>:
\* one shift of the register.
CrcShift(c) ==
    LET hi == c[1] \div 2
        lo == (c[2] \div 2) + 32768 * (c[1] % 2)
    IN  IF c[2] % 2 = 1 THEN <<Xor(hi, 60856), Xor(lo, 33568)>> ELSE <<hi, lo>>

RECURSIVE CrcRounds(_, _)
CrcRounds(c, n) ==
    IF n = 0 THEN c
    ELSE CHOOSE r \in {CrcRounds(s, n - 1) : s \in {CrcShift(c)}} : TRUE

\* The register after the bytes bs[i ..].
RECURSIVE CrcRun(_, _, _)
CrcRun(bs, i, c) ==
    IF i > Len(bs) THEN c
    ELSE CHOOSE r \in {CrcRun(bs, i + 1, s) :
                       s \in {CrcRounds(<<c[1], Xor(c[2], bs[i])>>, 8)}} : TRUE

\* zlib.crc32(bs), as <<high half, low half>>.
Crc32(bs) ==
    CHOOSE r \in {<<Xor(c[1], 65535), Xor(c[2], 65535)>> :
                  c \in {CrcRun(bs, 1, <<65535, 65535>>)}} : TRUE

\* gzip._read_gzip_header on d: [st, pos] with st "end" (no bytes left),
\* "error" (an exception) or "ok" with pos the end of the header.
GzipHeader(d) ==
    LET bad == [st |-> "error", pos |-> 0]
        flag(bit) == (d[4] \div bit) % 2 = 1
        after_zero(pos) ==
            IF \E k \in pos + 1 .. Len(d) : d[k] = 0
            THEN CHOOSE k \in pos + 1 .. Len(d) :
                     d[k] = 0 /\ \A j \in pos + 1 .. k - 1 : d[j] # 0
            ELSE Len(d)
        hcrc(pos) ==
            IF ~flag(2) THEN [st |-> "ok", pos |-> pos]
            ELSE IF pos + 2 > Len(d) THEN bad
            ELSE [st |-> "ok", pos |-> pos + 2]
        comment(pos) == hcrc(IF flag(16) THEN after_zero(pos) ELSE pos)
        name(pos) == comment(IF flag(8) THEN after_zero(pos) ELSE pos)
        extra(pos) ==
            IF ~flag(4) THEN name(pos)
            ELSE IF pos + 2 > Len(d) THEN bad
            ELSE IF pos + 2 + d[pos + 1] + 256 * d[pos + 2] > Len(d) THEN bad
            ELSE name(pos + 2 + d[pos + 1] + 256 * d[pos + 2])
    IN  IF d = <<>> THEN [st |-> "end", pos |-> 0]
        ELSE IF Slice(d, 0, 2) # <<31, 139>> THEN bad
        ELSE IF Len(d) < 10 THEN bad
        ELSE IF d[3] # 8 THEN bad
        ELSE extra(10)

\* bs.lstrip(b"\x00")
RECURSIVE LStripZeros(_)
LStripZeros(bs) ==
    IF bs # <<>> /\ bs[1] = 0 THEN LStripZeros(Tail(bs)) ELSE bs

\* The loop of gzip.decompress over the members of d; acc is the output of
\* the members before.  Each member is a header, a raw DEFLATE stream, the
\* CRC-32 and the length of its output, and zero bytes may follow it.
RECURSIVE GzipMembers(_, _)
GzipMembers(d, acc) ==
    LET bad == [st |-> "error", bp |-> 0, out |-> <<>>]
        trailer(s, e, crc) ==
            IF Len(d) - e < 8 THEN bad
            ELSE IF d[e + 1] + 256 * d[e + 2] # crc[2] THEN bad
            ELSE IF d[e + 3] + 256 * d[e + 4] # crc[1] THEN bad
            ELSE IF d[e + 5] + 256 * d[e + 6] # Len(s.out) THEN bad
            ELSE IF d[e + 7] # 0 \/ d[e + 8] # 0 THEN bad
            ELSE GzipMembers(LStripZeros(Slice(d, e + 8, Len(d))), acc \o s.out)
        member(s) ==
            IF s.st = "unmodelled" THEN [bad EXCEPT !.st = "unmodelled"]
            ELSE IF s.st # "ok" THEN bad
            ELSE trailer(s, (s.bp + 7) \div 8, Crc32(s.out))
        body(h) ==
            IF h.st = "end" THEN [st |-> "ok", bp |-> 0, out |-> acc]
            ELSE IF h.st = "error" THEN bad
            ELSE IF h.pos >= Len(d) THEN bad
            ELSE member(InflateBlocks(d, 8 * h.pos, <<>>))
    IN  body(GzipHeader(d))

\* gzip.decompress(d)
GzipInflate(d) == GzipMembers(d, <<>>)

----------------------------------------------------------------------------
(* Text decoding: bytes.decode('utf-8'), with errors='ignore', 'latin-1'.  *)

IsCont(b) == b >= 128 /\ b <= 191

\* The UTF-8 sequence that starts at bs[i]: [n, cp, skip] where n is its
\* length (0 when it is invalid), cp its code point, and skip the number of
\* bytes errors='ignore' drops when it is invalid.
Utf8At(bs, i) ==
    LET b0 == bs[i]
        has(k) == i + k <= Len(bs)
        b(k) == bs[i + k]
        lo2 == IF b0 = 224 THEN 160 ELSE IF b0 = 240 THEN 144 ELSE 128
        hi2 == IF b0 = 237 THEN 159 ELSE IF b0 = 244 THEN 143 ELSE 191
        ok2 == has(1) /\ b(1) >= lo2 /\ b(1) <= hi2
        ok3 == ok2 /\ has(2) /\ IsCont(b(2))
        ok4 == ok3 /\ has(3) /\ IsCont(b(3))
    IN  IF b0 < 128 THEN [n |-> 1, cp |-> b0, skip |-> 0]
        ELSE IF b0 >= 194 /\ b0 <= 223 THEN
            IF ok2 THEN [n |-> 2, cp |-> (b0 - 192) * 64 + (b(1) - 128), skip |-> 0]
            ELSE [n |-> 0, cp |-> 0, skip |-> 1]
        ELSE IF b0 >= 224 /\ b0 <= 239 THEN
            IF ok3 THEN [n |-> 3, skip |-> 0,
                         cp |-> (b0 - 224) * 4096 + (b(1) - 128) * 64 + (b(2) - 128)]
            ELSE [n |-> 0, cp |-> 0, skip |-> IF ok2 THEN 2 ELSE 1]
        ELSE IF b0 >= 240 /\ b0 <= 244 THEN
            IF ok4 THEN [n |-> 4, skip |-> 0,
                         cp |-> (b0 - 240) * 262144 + (b(1) - 128) * 4096
                                + (b(2) - 128) * 64 + (b(3) - 128)]
            ELSE [n |-> 0, cp |-> 0, skip |-> IF ok3 THEN 3 ELSE IF ok2 THEN 2 ELSE 1]
        ELSE [n |-> 0, cp |-> 0, skip |-> 1]

\* The decoder walks the buffer sequence by sequence.  A sequence, valid or
\* not, takes its first byte and continuation bytes only, so the walk stands
\* at every byte that is not a continuation byte, and a continuation byte it
\* stands at is invalid there.  Decoding is therefore position by position:
\* the code points of the valid sequences, in order; strict decoding raises
\* exactly when some byte belongs to no valid sequence.
Utf8Starts(bs) ==
    SelectSeq([i \in 1 .. Len(bs) |-> i], LAMBDA i : Utf8At(bs, i).n > 0)

Utf8Covered(bs, j) ==
    \E i \in Max(1, j - 3) .. j : Utf8At(bs, i).n > j - i

\* bs.decode('utf-8', errors='ignore'), which always succeeds.
Utf8Ignore(bs) ==
    LET points(starts) == [k \in 1 .. Len(starts) |-> Utf8At(bs, starts[k]).cp]
    IN  points(Utf8Starts(bs))

\* bs.decode('utf-8'): [ok, str]; ok is FALSE where Python raises
\* UnicodeDecodeError.
Utf8Strict(bs) ==
    [ok |-> \A j \in 1 .. Len(bs) : Utf8Covered(bs, j), str |-> Utf8Ignore(bs)]



\* bs.decode('latin-1'): every byte is its own code point.
Latin1(bs) == bs

\* The fallback used all over the source:
\*   try: bs.decode('utf-8')  except: bs.decode('latin-1')
Utf8OrLatin1(bs) ==
    LET pick(u) == IF u.ok THEN u.str ELSE Latin1(bs)
    IN  pick(Utf8Strict(bs))

----------------------------------------------------------------------------
(* BinaryReader.  A reader is [data, pos]; every read returns              *)
(* [err, val, pos]: err is "none" or the name of the exception raised, val *)
(* the value read, pos the reader's position afterwards.                   *)

Ok(v, pos) == [err |-> "none", val |-> v, pos |-> pos]

Raise(e, pos) == [err |-> e, val |-> 0, pos |-> pos]

\* r, and when r did not raise, what K makes of it: one statement after
\* another, where an exception of the first skips the rest.
Then(r, K(_)) == IF r.err # "none" THEN r ELSE K(r)

NewReader(d) == [data |-> d, pos |-> 0]

\* BinaryReader._read for a format of `size` bytes: the raw bytes.
ReadRaw(d, pos, size) ==
    IF pos + size > Len(d) THEN Raise("EOFError", pos)
    ELSE Ok(SubSeq(d, pos + 1, pos + size), pos + size)

read_byte(d, pos) ==
    Then(ReadRaw(d, pos, 1), LAMBDA r : Ok(r.val[1], r.pos))

\* An unsigned 32-bit little-endian value, saturated at Big.
U32Of(b) ==
    IF b[4] >= 64 THEN Big
    ELSE b[1] + 256 * b[2] + 65536 * b[3] + 16777216 * b[4]

\* A signed 32-bit little-endian value.
I32Of(b) ==
    b[1] + 256 * b[2] + 65536 * b[3]
      + 16777216 * (IF b[4] >= 128 THEN b[4] - 256 ELSE b[4])

read_u32(d, pos) ==
    Then(ReadRaw(d, pos, 4), LAMBDA r : Ok(U32Of(r.val), r.pos))

read_i32(d, pos) ==
    Then(ReadRaw(d, pos, 4), LAMBDA r : Ok(I32Of(r.val), r.pos))

\* A float is kept as its bit pattern: no claim depends on its value.
read_f32(d, pos) == ReadRaw(d, pos, 4)

read_f64(d, pos) == ReadRaw(d, pos, 8)

read_bool(d, pos) ==
    Then(read_byte(d, pos), LAMBDA r : Ok(r.val # 0, r.pos))

\* The 7-bit groups of a varint, least significant first, without trailing
\* zero groups: the exact value of a Python int of any size.
RECURSIVE StripZeros(_)
StripZeros(ds) ==
    IF ds # <<>> /\ ds[Len(ds)] = 0 THEN StripZeros(SubSeq(ds, 1, Len(ds) - 1))
    ELSE ds

\* The number a digit sequence stands for, saturated at Big.
VarNat(ds) ==
    IF Len(ds) > 4 THEN Big
    ELSE (IF Len(ds) >= 1 THEN ds[1] ELSE 0)
         + (IF Len(ds) >= 2 THEN 128 * ds[2] ELSE 0)
         + (IF Len(ds) >= 3 THEN 16384 * ds[3] ELSE 0)
         + (IF Len(ds) >= 4 THEN 2097152 * ds[4] ELSE 0)

\* read_varint: val is the digit sequence.  The loop has no bound on shift.
RECURSIVE VarintFrom(_, _, _)
VarintFrom(d, pos, ds) ==
    Then(read_byte(d, pos), LAMBDA r :
        IF r.val < 128 THEN Ok(StripZeros(Append(ds, r.val % 128)), r.pos)
        ELSE VarintFrom(d, r.pos, Append(ds, r.val % 128)))

\* A varint reader with a 32-bit accumulator: the groups above bit 31 are
\* shifted out.
read_varint_u32(d, pos) ==
    Then(VarintFrom(d, pos, <<>>), LAMBDA r :
        Ok(StripZeros(SubSeq(r.val, 1, Min(Len(r.val), 4))), r.pos))

read_varint(d, pos) == VarintFrom(d, pos, <<>>)

\* read_string: the slice is taken without a length check, the position is
\* advanced by the declared length, and the decode is strict.
read_string(d, pos) ==
    LET decoded(u, end) ==
            IF ~u.ok THEN Raise("UnicodeDecodeError", end) ELSE Ok(u.str, end)
        body(l, n) ==
            IF n = 0 THEN Ok(<<>>, l.pos)
            ELSE decoded(Utf8Strict(Slice(d, l.pos, l.pos + n)), l.pos + n)
    IN  Then(read_varint(d, pos), LAMBDA l : body(l, VarNat(l.val)))

\* A read_interleaved that copies the bytes in the order they are stored.
read_interleaved_as_stored(d, pos, count, width) ==
    IF count = 0 \/ width = 0 THEN Ok(<<>>, pos)
    ELSE IF Len(Slice(d, pos, pos + count * width)) < count * width
    THEN Raise("IndexError", pos + count * width)
    ELSE Ok(Slice(d, pos, pos + count * width), pos + count * width)

\* read_interleaved: the slice is taken without a length check and the
\* position is advanced by count * width; result[j * width + i] is
\* data[i * count + j], and indexing a short slice raises IndexError.
read_interleaved(d, pos, count, width) ==
    LET total == count * width
        from(k) == ((k - 1) % width) * count + ((k - 1) \div width) + 1
        body(chunk) ==
            IF Len(chunk) < total THEN Raise("IndexError", pos + total)
            ELSE Ok([k \in 1 .. total |-> chunk[from(k)]], pos + total)
    IN  IF count = 0 \/ width = 0 THEN Ok(<<>>, pos)
        ELSE body(Slice(d, pos, pos + total))

\* read_rotation_matrix: id 0 reads nine floats, 1..36 is the identity
\* (val <<>> here), anything else is a ValueError.
read_rotation_matrix(d, pos) ==
    Then(read_byte(d, pos), LAMBDA id :
        IF id.val = 0 THEN ReadRaw(d, id.pos, 36)
        ELSE IF id.val >= 1 /\ id.val <= 36 THEN Ok(<<>>, id.pos)
        ELSE Raise("ValueError", id.pos))

read_cframe(d, pos) ==
    Then(ReadRaw(d, pos, 12), LAMBDA xyz :
    Then(read_rotation_matrix(d, xyz.pos), LAMBDA rot :
        Ok(<<xyz.val, rot.val>>, rot.pos)))

----------------------------------------------------------------------------
(* TokenType and ValueType of rbx_binary_parser.py.                        *)

TOKEN_INST == 1
TOKEN_PROP == 2
TOKEN_PRNT == 3
TOKEN_END == 4

VT_STRING == 1
VT_BOOL == 2
VT_INT32 == 3
VT_FLOAT == 4
VT_DOUBLE == 5
VT_UDIM2 == 6
VT_UDIM == 7
VT_BRICKCOLOR == 11
VT_COLOR3 == 12
VT_VECTOR2 == 13
VT_VECTOR3 == 14
VT_VECTOR2INT16 == 15
VT_CFRAME == 16
VT_INSTANCE == 18
VT_PROTECTEDSTRING == 19
VT_NUMBERRANGE == 22
VT_RECT == 23
VT_PHYSICALPROPERTIES == 24
VT_COLOR3UINT8 == 25
VT_INT64 == 26
VT_SHAREDSTRING == 27

\* b"<roblox!"
MAGIC == <<60, 114, 111, 98, 108, 111, 120, 33>>

\* "<unknown>"
UNKNOWN_TEXT == <<60, 117, 110, 107, 110, 111, 119, 110, 62>>

\* "<shared_string_index:" and ">" around the decimal index; the index is
\* kept as its digit sequence.
SharedPlaceholder(ds) == [t |-> "shared_index", v |-> ds]

----------------------------------------------------------------------------
(* RBXBinaryParser.  The instance map is a Python dict: a sequence of      *)
(* [key, obj] in insertion order, where obj indexes `heap`, the Instance   *)
(* objects created so far (an object stays alive while a children list or  *)
(* root refers to it, also after its key was given to a newer object).     *)
(* The key str(ref) is kept as the integer ref.  root 0 is None.           *)
(* version, compressed and num_classes are the locals of parse that        *)
(* _verify_magic returns; exc is the exception that left parse, if any.    *)

\* RBXBinaryParser.__init__, and parse's  self.reader = BinaryReader(data).
NewParser(d) ==
    [reader |-> NewReader(d), old_reader |-> NewReader(<<>>), chunk |-> <<>>,
     shared_strings |-> <<>>, class_names |-> <<>>, has_class_list |-> FALSE,
     instances |-> <<>>, heap |-> <<>>, root |-> 0,
     version |-> 0, compressed |-> FALSE, num_classes |-> 0, exc |-> "none"]

Keys(p) == {p.instances[i].key : i \in 1 .. Len(p.instances)}

\* self.instances[k] for a key that is present: the object index.
Lookup(p, k) ==
    LET i == CHOOSE j \in 1 .. Len(p.instances) : p.instances[j].key = k
    IN  p.instances[i].obj

\* d[k] = v on an insertion-ordered dict kept as a sequence of [key, obj].
DictSet(dict, k, v) ==
    IF \E j \in 1 .. Len(dict) : dict[j].key = k
    THEN [j \in 1 .. Len(dict) |->
             IF dict[j].key = k THEN [key |-> k, obj |-> v] ELSE dict[j]]
    ELSE Append(dict, [key |-> k, obj |-> v])

\* _verify_magic: [err, p, num_classes].
verify_magic(p) ==
    LET d     == p.reader.data
        start == p.reader.pos
        fail(e) == [err |-> e, p |-> p, num_classes |-> 0]
        fields ==
            Then(read_byte(d, start + Len(MAGIC)), LAMBDA v :
            Then(read_varint(d, v.pos), LAMBDA n :
            Then(read_byte(d, n.pos), LAMBDA c :
                Ok([version |-> v.val, num_classes |-> n.val,
                    compressed |-> (c.val # 0)], c.pos))))
        header(r) ==
            IF r.err # "none" THEN fail(r.err)
            ELSE [err |-> "none", num_classes |-> VarNat(r.val.num_classes),
                  p |-> [p EXCEPT !.reader.pos = r.pos,
                                  !.version = r.val.version,
                                  !.compressed = r.val.compressed]]
    IN  IF Slice(d, start, start + Len(MAGIC)) # MAGIC THEN fail("ValueError")
        ELSE header(fields)

\* k strings one after the other from the state s = [err, val, pos], val
\* the list so far (by halves; a state that raised stays).
RECURSIVE StringRun(_, _, _)
StringRun(d, s, k) ==
    IF k <= 0 THEN s
    ELSE IF k = 1
    THEN Then(s, LAMBDA a : Then(read_string(d, a.pos), LAMBDA r :
             Ok(Append(a.val, r.val), r.pos)))
    ELSE CHOOSE last \in {StringRun(d, half, k - (k \div 2)) :
                          half \in {StringRun(d, s, k \div 2)}} : TRUE

\* [read_string() for _ in range(count)]: [err, val, pos].  Every string
\* takes at least one byte, so the loop ends, by an EOFError at the latest,
\* within as many turns as there are bytes left plus one.
ReadStrings(d, pos, count, acc) ==
    StringRun(d, Ok(acc, pos), Min(count, Max(1, Len(d) - pos + 1)))

\* parse, lines 485-494: the class table, abandoned on any failure (the
\* reader stays where the failing read left it).
read_class_table(p, num_classes) ==
    LET table(r) ==
            IF r.err # "none"
            THEN [p EXCEPT !.reader.pos = r.pos, !.class_names = <<>>,
                           !.has_class_list = FALSE]
            ELSE [p EXCEPT !.reader.pos = r.pos, !.class_names = r.val,
                           !.has_class_list = TRUE]
    IN  IF num_classes = 0 THEN p
        ELSE table(ReadStrings(p.reader.data, p.reader.pos, num_classes, <<>>))

\* A chunk codec that tries the raw DEFLATE from offset 2 before the raw
\* DEFLATE of the whole payload.
decode_chunk_raw_last(compressed) ==
    LET failed == [st |-> "error", bp |-> 0, out |-> <<>>]
        done(x) == [st |-> x.st, out |-> x.out]
        raw(x) ==
            IF x.st # "error" THEN done(x)
            ELSE [st |-> "ok", out |-> compressed]
        skip2(x) == IF x.st # "error" THEN done(x) ELSE raw(RawInflate(compressed))
        zlib(x) ==
            IF x.st # "error" THEN done(x)
            ELSE skip2(IF Len(compressed) > 2
                       THEN RawInflate(Slice(compressed, 2, Len(compressed)))
                       ELSE failed)
        gzip(x) == IF x.st # "error" THEN done(x) ELSE zlib(ZlibInflate(compressed))
    IN  gzip(IF StartsWith(compressed, <<31, 139>>) THEN GzipInflate(compressed)
             ELSE failed)

\* The decompression attempts of _read_chunk, lines 218-255: [st, out].
decode_chunk(compressed) ==
    LET failed == [st |-> "error", bp |-> 0, out |-> <<>>]
        done(x) == [st |-> x.st, out |-> x.out]
        skip2(x) ==
            IF x.st # "error" THEN done(x)
            ELSE [st |-> "ok", out |-> compressed]
        raw(x) ==
            IF x.st # "error" THEN done(x)
            ELSE skip2(IF Len(compressed) > 2
                       THEN RawInflate(Slice(compressed, 2, Len(compressed)))
                       ELSE failed)
        zlib(x) == IF x.st # "error" THEN done(x) ELSE raw(RawInflate(compressed))
        gzip(x) == IF x.st # "error" THEN done(x) ELSE zlib(ZlibInflate(compressed))
    IN  gzip(IF StartsWith(compressed, <<31, 139>>) THEN GzipInflate(compressed)
             ELSE failed)

\* _read_chunk on the file-level reader: [kind, payload, pos] with kind
\* "raise" (an exception left it), "none" (it returned None), "chunk", or
\* "unmodelled" (a decompression the model does not decide).
read_chunk(p) ==
    LET d == p.reader.data
        out(k, pl, pos) == [kind |-> k, payload |-> pl, pos |-> pos]
        decoded(dec, end) ==
            IF dec.st = "unmodelled" THEN out("unmodelled", <<>>, end)
            ELSE out("chunk", dec.out, end)
        body(len, res) ==
            IF res.err # "none" THEN out("raise", <<>>, res.pos)
            ELSE IF len.val > Len(d) - res.pos THEN out("none", <<>>, res.pos)
            ELSE decoded(decode_chunk(Slice(d, res.pos, res.pos + len.val)),
                         res.pos + len.val)
        length(len) ==
            IF len.err # "none" THEN out("raise", <<>>, len.pos)
            ELSE IF len.val = 0 THEN out("none", <<>>, len.pos)
            ELSE body(len, read_u32(d, len.pos))
    IN  length(read_u32(d, p.reader.pos))

\* k referents one after the other from the state s = [err, val, pos].
RECURSIVE I32Run(_, _, _)
I32Run(d, s, k) ==
    IF k <= 0 THEN s
    ELSE IF k = 1
    THEN Then(s, LAMBDA a : Then(read_i32(d, a.pos), LAMBDA r :
             Ok(Append(a.val, r.val), r.pos)))
    ELSE CHOOSE last \in {I32Run(d, half, k - (k \div 2)) :
                          half \in {I32Run(d, s, k \div 2)}} : TRUE

\* [read_i32() for _ in range(count)]: [err, val, pos]; the loop ends, by an
\* EOFError at the latest, one turn after the last four bytes left.
ReadI32s(d, pos, count, acc) ==
    I32Run(d, Ok(acc, pos), Min(count, Max(1, ((Len(d) - pos) \div 4) + 1)))

\* Instance(class_id, class_name, referent, properties={}, children=[]).
NewInstance(class_id, class_name, ref) ==
    [class_id |-> class_id, class_name |-> class_name, referent |-> ref,
     properties |-> <<>>, children |-> <<>>]

\* _read_instance, lines 281-292: one new object per referent, stored under
\* its key (a key already present is given the new object).
RECURSIVE Register(_, _, _, _)
Register(p, class_id, class_name, refs) ==
    IF refs = <<>> THEN p
    ELSE LET inst == NewInstance(class_id, class_name, Head(refs))
             heap == Append(p.heap, inst)
         IN  Register([p EXCEPT !.heap = heap,
                                !.instances = DictSet(@, Head(refs), Len(heap))],
                      class_id, class_name, Tail(refs))

\* _read_instance: [err, p].
read_instance(p) ==
    LET d == p.reader.data
        inTable(cid) ==
            p.class_names # <<>> /\ VarNat(cid) < Len(p.class_names)
        fields ==
            Then(read_varint(d, p.reader.pos), LAMBDA cid :
            Then(IF inTable(cid.val)
                 THEN Ok(p.class_names[VarNat(cid.val) + 1], cid.pos)
                 ELSE read_string(d, cid.pos), LAMBDA name :
            Then(read_byte(d, name.pos), LAMBDA svc :
            Then(IF svc.val = 0 THEN Ok(<<>>, svc.pos)
                 ELSE Then(read_u32(d, svc.pos), LAMBDA nm :
                          ReadStrings(d, nm.pos, nm.val, <<>>)), LAMBDA mk :
            Then(read_u32(d, mk.pos), LAMBDA cnt :
            Then(ReadI32s(d, cnt.pos, cnt.val, <<>>), LAMBDA refs :
                Ok([class_id |-> cid.val, class_name |-> name.val,
                    refs |-> refs.val], refs.pos)))))))
        register(r) ==
            IF r.err # "none" THEN [err |-> r.err, p |-> p]
            ELSE [err |-> "none",
                  p |-> Register([p EXCEPT !.reader.pos = r.pos],
                                 r.val.class_id, r.val.class_name, r.val.refs)]
    IN  register(fields)

\* A property value is [t, v]: t "str" for a Python str (v its code
\* points), otherwise the kind of the decoded value with v what was read.
Str(v) == [t |-> "str", v |-> v]

\* The byte widths of the fields of a fixed-layout value type, each read
\* with BinaryReader._read; <<>> for a type that is not of this kind.
FieldWidths(vt) ==
    IF vt = VT_BOOL THEN <<1>>
    ELSE IF vt = VT_INT32 \/ vt = VT_BRICKCOLOR \/ vt = VT_FLOAT THEN <<4>>
    ELSE IF vt = VT_DOUBLE THEN <<8>>
    ELSE IF vt = VT_VECTOR3 \/ vt = VT_COLOR3 \/ vt = VT_PHYSICALPROPERTIES
         THEN <<4, 4, 4>>
    ELSE IF vt = VT_VECTOR2 \/ vt = VT_NUMBERRANGE \/ vt = VT_UDIM
            \/ vt = VT_INT64 THEN <<4, 4>>
    ELSE IF vt = VT_COLOR3UINT8 THEN <<1, 1, 1>>
    ELSE IF vt = VT_UDIM2 \/ vt = VT_RECT THEN <<4, 4, 4, 4>>
    ELSE <<>>

\* The fields of one fixed-layout value: [err, val, pos].
RECURSIVE ReadFields(_, _, _, _)
ReadFields(d, pos, widths, acc) ==
    IF widths = <<>> THEN Ok(acc, pos)
    ELSE Then(ReadRaw(d, pos, Head(widths)), LAMBDA r :
             ReadFields(d, r.pos, Tail(widths), Append(acc, r.val)))

\* A ProtectedString value, lines 392-409: zlib only behind 78 9C, raw
\* DEFLATE only after that zlib attempt raised, else the bytes as they are.
read_protected(d, pos) ==
    LET text(x, end) ==
            IF x.st = "unmodelled" THEN Raise("unmodelled", end)
            ELSE Ok(Str(Utf8OrLatin1(x.out)), end)
        asis(c) == [st |-> "ok", out |-> c]
        raw(c, r) == IF r.st = "error" THEN asis(c) ELSE [st |-> r.st, out |-> r.out]
        zlib(c, z) ==
            IF z.st = "error" THEN raw(c, RawInflate(c))
            ELSE [st |-> z.st, out |-> z.out]
        content(c, end) ==
            text(IF StartsWith(c, <<120, 156>>) THEN zlib(c, ZlibInflate(c))
                 ELSE asis(c), end)
    IN  Then(read_u32(d, pos), LAMBDA l :
            content(Slice(d, l.pos, l.pos + l.val), l.pos + l.val))

\* One value of a recognised value type: [err, val, pos].
ReadOne(vt, d, pos) ==
    LET tag(r, t) == Then(r, LAMBDA x : Ok([t |-> t, v |-> x.val], x.pos))
    IN  IF vt = VT_STRING THEN tag(read_string(d, pos), "str")
        ELSE IF vt = VT_BOOL THEN tag(read_bool(d, pos), "bool")
        ELSE IF vt = VT_INT32 \/ vt = VT_BRICKCOLOR \/ vt = VT_INSTANCE
             THEN tag(read_i32(d, pos), "int")
        ELSE IF vt = VT_VECTOR2INT16
             THEN Ok([t |-> "raw", v |-> <<Slice(d, pos, pos + 2),
                                           Slice(d, pos + 2, pos + 4)>>],
                     pos + 4)
        ELSE IF vt = VT_CFRAME THEN tag(read_cframe(d, pos), "cframe")
        ELSE IF vt = VT_SHAREDSTRING
             THEN Then(read_varint(d, pos), LAMBDA x :
                      Ok(SharedPlaceholder(x.val), x.pos))
        ELSE IF vt = VT_PROTECTEDSTRING THEN read_protected(d, pos)
        ELSE tag(ReadFields(d, pos, FieldWidths(vt), <<>>), "raw")

Recognised(vt) ==
    vt \in {VT_STRING, VT_VECTOR2INT16, VT_CFRAME, VT_INSTANCE,
            VT_SHAREDSTRING, VT_PROTECTEDSTRING}
    \/ FieldWidths(vt) # <<>>

\* k values of type vt one after the other from the state s.
RECURSIVE ValueRun(_, _, _, _)
ValueRun(vt, d, s, k) ==
    IF k <= 0 THEN s
    ELSE IF k = 1
    THEN Then(s, LAMBDA a : Then(ReadOne(vt, d, a.pos), LAMBDA r :
             Ok(Append(a.val, r.val), r.pos)))
    ELSE CHOOSE last \in {ValueRun(vt, d, half, k - (k \div 2)) :
                          half \in {ValueRun(vt, d, s, k \div 2)}} : TRUE

\* count values of a recognised type, one per instance: [err, val, pos].
ReadValues(vt, d, pos, count, acc) == ValueRun(vt, d, Ok(acc, pos), count)

\* One element of the per-element fallback, lines 435-447: a u32 length and
\* that many bytes when they are there, else the placeholder.
read_u32_string(d, pos) ==
    LET element(l) ==
            IF l.err = "none" /\ l.val # 0 /\ l.pos + l.val <= Len(d)
            THEN Ok(Str(Utf8OrLatin1(Slice(d, l.pos, l.pos + l.val))),
                    l.pos + l.val)
            ELSE Ok(Str(UNKNOWN_TEXT), l.pos)
    IN  element(read_u32(d, pos))

RECURSIVE U32StringRun(_, _, _)
U32StringRun(d, s, k) ==
    IF k <= 0 THEN s
    ELSE IF k = 1
    THEN Then(read_u32_string(d, s.pos), LAMBDA r :
             Ok(Append(s.val, r.val), r.pos))
    ELSE CHOOSE last \in {U32StringRun(d, half, k - (k \div 2)) :
                          half \in {U32StringRun(d, s, k \div 2)}} : TRUE

\* The per-element fallback of the unknown-type recovery, lines 433-448:
\* it cannot fail; every element gets a string.
ReadU32Strings(d, pos, count, acc) == U32StringRun(d, Ok(acc, pos), count)

\* The recovery without its per-element fallback: an implausible shared
\* length raises out of _read_property.
read_unknown_no_fallback(d, pos, count) ==
    LET shared(text, end) == Ok([i \in 1 .. count |-> Str(text)], end)
        length(l, n) ==
            IF l.err = "none" /\ l.pos + n <= Len(d)
            THEN shared(Utf8OrLatin1(Slice(d, l.pos, l.pos + n)), l.pos + n)
            ELSE Raise("Exception", l.pos)
        varint(l) == length(l, IF l.err = "none" THEN VarNat(l.val) ELSE 0)
    IN  varint(read_varint(d, pos))

\* The recovery for an unknown or unimplemented value type, lines 410-448:
\* one varint length for a text shared by all, else the per-element fallback
\* from wherever the reader stands.
read_unknown(d, pos, count) ==
    LET shared(text, end) == Ok([i \in 1 .. count |-> Str(text)], end)
        length(l, n) ==
            IF l.err = "none" /\ l.pos + n <= Len(d)
            THEN shared(Utf8OrLatin1(Slice(d, l.pos, l.pos + n)), l.pos + n)
            ELSE ReadU32Strings(d, l.pos, count, <<>>)
        varint(l) == length(l, IF l.err = "none" THEN VarNat(l.val) ELSE 0)
    IN  varint(read_varint(d, pos))

\* inst.properties[name] = value on the insertion-ordered property dict.
PropSet(props, name, value) ==
    IF \E j \in 1 .. Len(props) : props[j].name = name
    THEN [j \in 1 .. Len(props) |->
             IF props[j].name = name THEN [name |-> name, value |-> value]
             ELSE props[j]]
    ELSE Append(props, [name |-> name, value |-> value])

\* The objects of the map whose class_id is cid, in dict order (line 303).
InstancesOfClass(p, cid) ==
    LET objs == [j \in 1 .. Len(p.instances) |-> p.instances[j].obj]
    IN  SelectSeq(objs, LAMBDA o : p.heap[o].class_id = cid)

\* An assignment that pairs the instances with the values from the last
\* value backwards.
AssignValuesReversed(p, objs, name, values) ==
    LET n == Min(Len(objs), Len(values))
        valueOf(o) ==
            LET k == CHOOSE j \in 1 .. n : objs[j] = o IN values[n - k + 1]
    IN  [p EXCEPT !.heap = [o \in 1 .. Len(@) |->
            IF \E j \in 1 .. n : objs[j] = o
            THEN [@[o] EXCEPT !.properties = PropSet(@, name, valueOf(o))]
            ELSE @[o]]]

\* Lines 450-452: zip(instances, values), one assignment per pair.
AssignValues(p, objs, name, values) ==
    LET n == Min(Len(objs), Len(values))
        valueOf(o) == LET k == CHOOSE j \in 1 .. n : objs[j] = o IN values[k]
    IN  [p EXCEPT !.heap = [o \in 1 .. Len(@) |->
            IF \E j \in 1 .. n : objs[j] = o
            THEN [@[o] EXCEPT !.properties = PropSet(@, name, valueOf(o))]
            ELSE @[o]]]

\* An InstanceRef value resolves through the map: the object or None (0).
ResolveRefs(p, vt, values) ==
    IF vt # VT_INSTANCE THEN values
    ELSE [j \in 1 .. Len(values) |->
             [t |-> "ref",
              v |-> IF values[j].v \in Keys(p) THEN Lookup(p, values[j].v)
                    ELSE 0]]

\* _read_property with each value stored as soon as it is decoded: when a
\* value fails, the values before it have been assigned.
read_property_value_by_value(p) ==
    LET d == p.reader.data
        none == [class_id |-> <<>>, name |-> <<>>, vt |-> 0, objs |-> <<>>]
        fields ==
            Then(read_varint(d, p.reader.pos), LAMBDA cid :
            Then(read_string(d, cid.pos), LAMBDA name :
            Then(read_byte(d, name.pos), LAMBDA vt :
                Ok([class_id |-> cid.val, name |-> name.val, vt |-> vt.val],
                   vt.pos))))
        partial(info, pos) ==
            LET k == CHOOSE j \in 0 .. Len(info.objs) :
                         /\ ReadValues(info.vt, d, pos, j, <<>>).err = "none"
                         /\ ReadValues(info.vt, d, pos, j + 1, <<>>).err # "none"
            IN  AssignValues(p, SubSeq(info.objs, 1, k), info.name,
                    ResolveRefs(p, info.vt,
                                ReadValues(info.vt, d, pos, k, <<>>).val))
        assign(info, vals, pos) ==
            IF vals.err # "none"
            THEN [err |-> vals.err, info |-> info,
                  p |-> IF Recognised(info.vt) THEN partial(info, pos) ELSE p]
            ELSE [err |-> "none", info |-> info,
                  p |-> AssignValues([p EXCEPT !.reader.pos = vals.pos],
                                     info.objs, info.name,
                                     ResolveRefs(p, info.vt, vals.val))]
        values(info, pos) ==
            IF info.objs = <<>>
            THEN [err |-> "none", p |-> [p EXCEPT !.reader.pos = pos],
                  info |-> info]
            ELSE assign(info,
                        IF Recognised(info.vt)
                        THEN ReadValues(info.vt, d, pos, Len(info.objs), <<>>)
                        ELSE read_unknown(d, pos, Len(info.objs)), pos)
        token(f) ==
            IF f.err # "none" THEN [err |-> f.err, p |-> p, info |-> none]
            ELSE values([class_id |-> f.val.class_id, name |-> f.val.name,
                         vt |-> f.val.vt,
                         objs |-> InstancesOfClass(p, f.val.class_id)], f.pos)
    IN  token(fields)

\* _read_property: [err, p, info]; info records what the token was.
read_property(p) ==
    LET d == p.reader.data
        none == [class_id |-> <<>>, name |-> <<>>, vt |-> 0, objs |-> <<>>]
        fields ==
            Then(read_varint(d, p.reader.pos), LAMBDA cid :
            Then(read_string(d, cid.pos), LAMBDA name :
            Then(read_byte(d, name.pos), LAMBDA vt :
                Ok([class_id |-> cid.val, name |-> name.val, vt |-> vt.val],
                   vt.pos))))
        assign(info, vals) ==
            IF vals.err # "none" THEN [err |-> vals.err, p |-> p, info |-> info]
            ELSE [err |-> "none", info |-> info,
                  p |-> AssignValues([p EXCEPT !.reader.pos = vals.pos],
                                     info.objs, info.name,
                                     ResolveRefs(p, info.vt, vals.val))]
        values(info, pos) ==
            IF info.objs = <<>>
            THEN [err |-> "none", p |-> [p EXCEPT !.reader.pos = pos],
                  info |-> info]
            ELSE assign(info,
                        IF Recognised(info.vt)
                        THEN ReadValues(info.vt, d, pos, Len(info.objs), <<>>)
                        ELSE read_unknown(d, pos, Len(info.objs)))
        token(f) ==
            IF f.err # "none" THEN [err |-> f.err, p |-> p, info |-> none]
            ELSE values([class_id |-> f.val.class_id, name |-> f.val.name,
                         vt |-> f.val.vt,
                         objs |-> InstancesOfClass(p, f.val.class_id)], f.pos)
    IN  token(fields)

\* The linking loop of _read_parent, lines 469-476, from pair i on:
\* [err, p, applied] where applied is the number of pairs linked before the
\* loop ended; indexing the map with a missing key raises KeyError.
RECURSIVE LinkPairs(_, _, _, _)
LinkPairs(p, children, parents, i) ==
    IF i > Min(Len(children), Len(parents))
    THEN [err |-> "none", p |-> p, applied |-> i - 1]
    ELSE LET c  == children[i]
             pr == parents[i]
         IN  IF pr = -1 THEN
                 IF c \notin Keys(p)
                 THEN [err |-> "KeyError", p |-> p, applied |-> i - 1]
                 ELSE LinkPairs([p EXCEPT !.root = Lookup(p, c)],
                                children, parents, i + 1)
             ELSE IF pr \notin Keys(p) \/ c \notin Keys(p)
                 THEN [err |-> "KeyError", p |-> p, applied |-> i - 1]
                 ELSE LinkPairs(
                        [p EXCEPT !.heap[Lookup(p, pr)].children =
                                      Append(@, Lookup(p, c))],
                        children, parents, i + 1)

\* _read_parent: [err, p, info].
read_parent(p) ==
    LET d == p.reader.data
        none == [children |-> <<>>, parents |-> <<>>, applied |-> 0,
                 keys |-> {}]
        fields ==
            Then(read_byte(d, p.reader.pos), LAMBDA ver :
            Then(read_u32(d, ver.pos), LAMBDA cnt :
            Then(ReadI32s(d, cnt.pos, cnt.val, <<>>), LAMBDA ch :
            Then(ReadI32s(d, ch.pos, cnt.val, <<>>), LAMBDA pa :
                Ok([children |-> ch.val, parents |-> pa.val], pa.pos)))))
        linked(f, lk) ==
            [err |-> lk.err, p |-> lk.p,
             info |-> [children |-> f.val.children, parents |-> f.val.parents,
                       applied |-> lk.applied, keys |-> Keys(p)]]
        link(f) ==
            IF f.err # "none" THEN [err |-> f.err, p |-> p, info |-> none]
            ELSE linked(f, LinkPairs([p EXCEPT !.reader.pos = f.pos],
                                     f.val.children, f.val.parents, 1))
    IN  link(fields)

----------------------------------------------------------------------------
(* RBXBinaryParser.parse as a machine.  A machine state is                 *)
(* [pc, parser, trail]; trail has one record per chunk the loop read:      *)
(* where its header stood, its declared length, its decoded payload, the   *)
(* instance map as it stood when the chunk was read, the tokens dispatched *)
(* in it, and how its token loop ended.                                    *)

NoInfo ==
    [class_id |-> <<>>, name |-> <<>>, vt |-> 0, objs |-> <<>>,
     children |-> <<>>, parents |-> <<>>, applied |-> 0, keys |-> {}]

Terminal == {"returned", "raised", "unmodelled"}

MInit(d) == [pc |-> "verify_magic", parser |-> NewParser(d), trail |-> <<>>]

\* parse, line 483: an exception of _verify_magic leaves parse.
header_step(m) ==
    LET header(v) ==
            IF v.err # "none"
            THEN [m EXCEPT !.pc = "raised", !.parser.exc = v.err]
            ELSE [m EXCEPT !.pc = "class_table",
                           !.parser = [v.p EXCEPT !.num_classes = v.num_classes]]
    IN  header(verify_magic(m.parser))

\* parse, lines 486-494.
class_table_step(m) ==
    [m EXCEPT !.pc = "read_chunk",
              !.parser = read_class_table(@, @.num_classes)]

\* parse without the try/except of lines 498-502: an exception of
\* _read_chunk leaves parse.
chunk_loop_exit_uncaught(kind) ==
    IF kind = "chunk" THEN "tokens"
    ELSE IF kind = "unmodelled" THEN "unmodelled"
    ELSE IF kind = "raise" THEN "raised"
    ELSE "returned"

\* parse, lines 498-504: where the chunk loop goes on the outcome of
\* _read_chunk (an exception and None both end the loop, and parse returns).
chunk_loop_exit(kind) ==
    IF kind = "chunk" THEN "tokens"
    ELSE IF kind = "unmodelled" THEN "unmodelled"
    ELSE "returned"

\* parse, lines 497-508: read the next chunk and install its reader.
chunk_step(m) ==
    LET p == m.parser
        file(rc) == [p.reader EXCEPT !.pos = rc.pos]
        entry(rc) ==
            [at |-> p.reader.pos, len |-> rc.pos - p.reader.pos - 8,
             payload |-> rc.payload, keys |-> Keys(p), map |-> p.instances,
             toks |-> <<>>, closed |-> "open"]
        chunk(rc) ==
            IF rc.kind = "chunk"
            THEN [pc |-> chunk_loop_exit(rc.kind),
                  parser |-> [p EXCEPT !.reader = NewReader(rc.payload),
                                       !.old_reader = file(rc),
                                       !.chunk = rc.payload],
                  trail |-> Append(m.trail, entry(rc))]
            ELSE [m EXCEPT !.pc = chunk_loop_exit(rc.kind),
                           !.parser.reader = file(rc)]
    IN  chunk(read_chunk(p))

\* The token the loop would read next (0 when the payload is exhausted).
NextToken(p) ==
    IF p.reader.pos < Len(p.chunk) THEN p.chunk[p.reader.pos + 1] ELSE 0

Exhausted(p) == ~(p.reader.pos < Len(p.chunk))

\* The handler of a token, run on the parser after the token byte was
\* read: [err, p, info].
dispatch(tok, p) ==
    LET inst(i) == [err |-> i.err, p |-> i.p, info |-> NoInfo]
        prop(r) ==
            [err |-> r.err, p |-> r.p,
             info |-> [NoInfo EXCEPT !.class_id = r.info.class_id,
                                     !.name = r.info.name,
                                     !.vt = r.info.vt,
                                     !.objs = r.info.objs]]
        prnt(t) ==
            [err |-> t.err, p |-> t.p,
             info |-> [NoInfo EXCEPT !.children = t.info.children,
                                     !.parents = t.info.parents,
                                     !.applied = t.info.applied,
                                     !.keys = t.info.keys]]
    IN  IF tok = TOKEN_INST THEN inst(read_instance(p))
        ELSE IF tok = TOKEN_PROP THEN prop(read_property(p))
        ELSE IF tok = TOKEN_PRNT THEN prnt(read_parent(p))
        ELSE [err |-> "none", p |-> p, info |-> NoInfo]

\* parse, lines 516-531: what ends the token loop of the current chunk.
\* Every exception of a handler is caught here and ends the chunk.
token_loop_break(tok, err) ==
    IF err # "none" THEN "error"
    ELSE IF tok = TOKEN_END THEN "end"
    ELSE IF tok \notin {TOKEN_INST, TOKEN_PROP, TOKEN_PRNT} THEN "unknown_token"
    ELSE "open"

\* parse without the `finally` of lines 532-533: the chunk reader stays
\* installed when the token loop ends.
keep_chunk_reader(q) == q

\* parse with one reader for the file and the chunk: after the token loop
\* the file position is where the loop stopped inside the payload.
restore_reader_where_loop_ended(q) ==
    [q EXCEPT !.reader = [q.old_reader EXCEPT
                              !.pos = @ - Len(q.chunk) + q.reader.pos]]

\* parse, lines 532-533: the `finally` puts the file-level reader back.
restore_reader(q) == [q EXCEPT !.reader = q.old_reader]

\* parse, lines 511-533: one turn of the token loop, with the `finally`
\* that restores the file-level reader when the loop ends.
token_step(m) ==
    LET p   == m.parser
        n   == Len(m.trail)
        restore(q) == restore_reader(q)
        rec(tok, h) ==
            [at |-> p.reader.pos, tok |-> tok, err |-> h.err, info |-> h.info]
        handled(tok, h, brk) ==
            IF h.err = "unmodelled" THEN [m EXCEPT !.pc = "unmodelled"]
            ELSE IF brk # "open"
            THEN [pc |-> "read_chunk", parser |-> restore(h.p),
                  trail |-> [m.trail EXCEPT ![n].toks = Append(@, rec(tok, h)),
                                            ![n].closed = brk]]
            ELSE [pc |-> "tokens", parser |-> h.p,
                  trail |-> [m.trail EXCEPT ![n].toks = Append(@, rec(tok, h))]]
        token(tok, h) == handled(tok, h, token_loop_break(tok, h.err))
    IN  IF Exhausted(p)
        THEN [pc |-> "read_chunk", parser |-> restore(p),
              trail |-> [m.trail EXCEPT ![n].closed = "exhausted"]]
        ELSE token(NextToken(p),
                   dispatch(NextToken(p), [p EXCEPT !.reader.pos = @ + 1]))

MStep(m) ==
    IF m.pc \in Terminal THEN m
    ELSE IF m.pc = "verify_magic" THEN header_step(m)
    ELSE IF m.pc = "class_table" THEN class_table_step(m)
    ELSE IF m.pc = "read_chunk" THEN chunk_step(m)
    ELSE token_step(m)

\* k steps (by halves); a machine that has ended stays as it is.
RECURSIVE MRun(_, _)
MRun(m, k) ==
    IF k <= 1 THEN MStep(m)
    ELSE CHOOSE last \in {MRun(half, k - (k \div 2)) :
                          half \in {MRun(m, k \div 2)}} : TRUE

\* RBXBinaryParser.parse(data), run to its end.  Past the header and the
\* class table, every step reads a chunk header or a token byte or ends a
\* chunk that had one, so the run is shorter than the bound given here.
parse(d) == MRun(MInit(d), 2 * Len(d) + 4)

----------------------------------------------------------------------------
(* Files the parser is run on.  A well-formed file is a header, chunks     *)
(* (length, reserved word, payload) and the zero-length terminator; the    *)
(* encoders below are the inverses of the BinaryReader reads.              *)

EncU32(n) ==
    <<n % 256, (n \div 256) % 256, (n \div 65536) % 256, n \div 16777216>>

EncI32(n) ==
    IF n >= 0 THEN EncU32(n)
    ELSE [j \in 1 .. 4 |-> 255 - EncU32(-n - 1)[j]]

RECURSIVE EncVarint(_)
EncVarint(n) ==
    IF n < 128 THEN <<n>> ELSE <<128 + (n % 128)>> \o EncVarint(n \div 128)

EncStr(s) == EncVarint(Len(s)) \o s

\* The length-prefixed text the unknown-type recovery reads per value.
EncU32Str(s) == EncU32(Len(s)) \o s

EncRefs(refs) == Concat([j \in 1 .. Len(refs) |-> EncI32(refs[j])])

\* An INST token without service markers; name is <<>> when the class id
\* is looked up in the class table.
InstToken(cid, name, refs) ==
    <<TOKEN_INST>> \o EncVarint(cid)
        \o (IF name = <<>> THEN <<>> ELSE EncStr(name))
        \o <<0>> \o EncU32(Len(refs)) \o EncRefs(refs)

PropToken(cid, name, vt, values) ==
    <<TOKEN_PROP>> \o EncVarint(cid) \o EncStr(name) \o <<vt>> \o values

PrntToken(children, parents) ==
    <<TOKEN_PRNT, 0>> \o EncU32(Len(children)) \o EncRefs(children)
        \o EncRefs(parents)

Header(classes, flag) ==
    MAGIC \o <<0>> \o EncVarint(Len(classes)) \o <<flag>>
        \o Concat([j \in 1 .. Len(classes) |-> EncStr(classes[j])])

\* A payload as one final stored DEFLATE block.
Stored(payload) ==
    LET n == Len(payload)
    IN  <<1, n % 256, n \div 256, 255 - (n % 256), 255 - (n \div 256)>> \o payload

ChunkOf(body) == EncU32(Len(body)) \o EncU32(0) \o body

Terminator == EncU32(0)

\* A file as its parts: the header bytes and the chunk bodies as stored.
FileBytes(f) ==
    f.header \o Concat([j \in 1 .. Len(f.chunks) |-> ChunkOf(f.chunks[j])])
        \o Terminator

\* Where the body of chunk i starts in the file (0-based offset).
BodyStart(f, i) ==
    Len(f.header \o Concat([j \in 1 .. i - 1 |-> ChunkOf(f.chunks[j])])) + 8

\* Class table A, B; an instance in each of two chunks, a string property,
\* the hierarchy and END in the third.
FileA ==
    [header |-> Header(<<(<<65>>), (<<66>>)>>, 0),
     chunks |-> <<
        InstToken(0, <<>>, <<1>>),
        InstToken(1, <<>>, <<2>>),
        PropToken(0, <<78>>, VT_STRING, EncStr(<<120>>))
            \o PrntToken(<<2, 1>>, <<1, -1>>) \o <<TOKEN_END>> >>]

\* No class table (inline class names).  The first chunk ends with a
\* property of unknown value type 254 for the two instances of class 0,
\* whose recovery has to fall back twice; the second chunk has a PRNT whose
\* second pair names the unregistered referent 9, and a property after it.
FileB ==
    [header |-> Header(<<>>, 0),
     chunks |-> <<
        InstToken(0, <<65>>, <<1, 2>>)
            \o PropToken(0, <<86>>, 254, <<127>> \o EncU32Str(<<119>>)),
        InstToken(1, <<66>>, <<3>>)
            \o PrntToken(<<3, 9, 1>>, <<1, -1, -1>>)
            \o PropToken(1, <<78>>, VT_STRING, EncStr(<<120>>)) >>]

\* A compressed file: the first chunk is a stored DEFLATE block; it holds
\* a property of unknown type 0 with a shared one-byte text.
FileC ==
    [header |-> Header(<<(<<83>>)>>, 1),
     chunks |-> <<
        Stored(InstToken(0, <<>>, <<5, 6>>)
               \o PropToken(0, <<86>>, 0, <<1, 119>>)),
        InstToken(0, <<>>, <<7>>) \o PrntToken(<<6, 5>>, <<5, -1>>) >>]

BaseFiles == <<FileA, FileB, FileC>>

\* The longest run of payload bytes one corruption replaces.
MaxBurst == 1

\* The bytes a corruption writes.
FlipBytes == {0, 1, 2, 3, 255}

Bursts == UNION {[1 .. w -> FlipBytes] : w \in 1 .. MaxBurst}

\* The file with the bytes bs written over the body of chunk i from
\* offset at (the header of the chunk and every other chunk stay intact).
Corrupt(f, i, at, bs) ==
    LET d == FileBytes(f)
        o == BodyStart(f, i) + at
    IN  [j \in 1 .. Len(d) |->
            IF j > o /\ j <= o + Len(bs) THEN bs[j - o] ELSE d[j]]

\* What the parser is run on: a whole file, a proper prefix of one, or one
\* with a corrupted chunk body.
ParserInputs ==
    {[kind |-> "whole", file |-> f, k |-> 0, chunk |-> 0, at |-> 0,
      bytes |-> <<>>] : f \in 1 .. Len(BaseFiles)}
    \cup UNION {
        {[kind |-> "prefix", file |-> f, k |-> k, chunk |-> 0, at |-> 0,
          bytes |-> <<>>] : k \in 0 .. Len(FileBytes(BaseFiles[f])) - 1}
        : f \in 1 .. Len(BaseFiles)}
    \cup UNION { UNION { UNION {
        {[kind |-> "corrupt", file |-> f, k |-> 0, chunk |-> i, at |-> at,
          bytes |-> bs] :
            at \in 0 .. Len(BaseFiles[f].chunks[i]) - Len(bs)}
        : bs \in Bursts}
        : i \in 1 .. Len(BaseFiles[f].chunks)}
        : f \in 1 .. Len(BaseFiles)}

InputBytes(in) ==
    LET f == BaseFiles[in.file]
    IN  IF in.kind = "prefix" THEN Slice(FileBytes(f), 0, in.k)
        ELSE IF in.kind = "corrupt" THEN Corrupt(f, in.chunk, in.at, in.bytes)
        ELSE FileBytes(f)

----------------------------------------------------------------------------
(* The parser specification: parse(data) one step at a time.               *)

Unused == <<>>

Init ==
    /\ input \in ParserInputs
    /\ data = InputBytes(input)
    /\ pc = "verify_magic"
    /\ parser = NewParser(data)
    /\ trail = <<>>
    /\ fs = Unused /\ options = Unused /\ work = Unused /\ result = Unused

Cur == [pc |-> pc, parser |-> parser, trail |-> trail]

Commit(m) ==
    /\ pc' = m.pc
    /\ parser' = m.parser
    /\ trail' = m.trail
    /\ UNCHANGED <<input, data, fs, options, work, result>>

VerifyMagic == pc = "verify_magic" /\ Commit(header_step(Cur))

ClassTable == pc = "class_table" /\ Commit(class_table_step(Cur))

ReadChunk == pc = "read_chunk" /\ Commit(chunk_step(Cur))

InTokens == pc = "tokens" /\ ~Exhausted(parser)

TokenInst == InTokens /\ NextToken(parser) = TOKEN_INST /\ Commit(token_step(Cur))

TokenProp == InTokens /\ NextToken(parser) = TOKEN_PROP /\ Commit(token_step(Cur))

TokenPrnt == InTokens /\ NextToken(parser) = TOKEN_PRNT /\ Commit(token_step(Cur))

TokenEnd == InTokens /\ NextToken(parser) = TOKEN_END /\ Commit(token_step(Cur))

TokenUnknown ==
    /\ InTokens
    /\ NextToken(parser) \notin {TOKEN_INST, TOKEN_PROP, TOKEN_PRNT, TOKEN_END}
    /\ Commit(token_step(Cur))

ChunkExhausted ==
    pc = "tokens" /\ Exhausted(parser) /\ Commit(token_step(Cur))

Next ==
    \/ VerifyMagic
    \/ ClassTable
    \/ ReadChunk
    \/ TokenInst
    \/ TokenProp
    \/ TokenPrnt
    \/ TokenEnd
    \/ TokenUnknown
    \/ ChunkExhausted

Spec == Init /\ [][Next]_vars

----------------------------------------------------------------------------
(* Properties of the parser.                                               *)

\* The uncorrupted run of each file.
BaseRuns == [f \in 1 .. Len(BaseFiles) |-> parse(FileBytes(BaseFiles[f]))]

\* The fixed part of the header: magic, version, class count, flag.
FixedHeader == Len(Header(<<>>, 0))

IsDict(map) == \A a, b \in 1 .. Len(map) : map[a].key = map[b].key => a = b

\* parse has returned its result, with the instance map in it.
Returned == pc = "returned" /\ parser.exc = "none" /\ IsDict(parser.instances)

\* Some step of parse can be taken: the conditions of the actions of Next.
CanStep ==
    \/ pc \in {"verify_magic", "class_table", "read_chunk"}
    \/ pc = "tokens" /\ Exhausted(parser)
    \/ InTokens /\ NextToken(parser) \in 0 .. 255

\* The turns parse has taken: header, class table, chunks read, tokens
\* dispatched, token loops ended, and the return or raise.
Turns ==
    (IF pc = "verify_magic" THEN 0 ELSE IF pc = "class_table" THEN 1 ELSE 2)
    + Len(trail)
    + SumSeq([i \in 1 .. Len(trail) |-> Len(trail[i].toks)], 1, Len(trail))
    + Cardinality({i \in 1 .. Len(trail) : trail[i].closed # "open"})
    + (IF pc \in Terminal THEN 1 ELSE 0)

\* The loops of parse are bounded by the bytes they consume: a chunk takes
\* at least nine bytes of the file, a token at least one byte of its payload.
TurnsBounded ==
    /\ 9 * Len(trail) <= Len(data)
    /\ \A i \in 1 .. Len(trail) : Len(trail[i].toks) <= Len(trail[i].payload)

\* parse runs to its return without raising: it is never stuck before its
\* end, every step is one more turn of loops that are bounded, and the end
\* is the return of the result.
RunsToReturn ==
    /\ pc # "raised"
    /\ pc \in Terminal \/ CanStep
    /\ TurnsBounded
    /\ pc \in Terminal => Returned

Dispatched ==
    UNION {{<<i, j>> : j \in 1 .. Len(trail[i].toks)} : i \in 1 .. Len(trail)}

TokenAt(ij) == trail[ij[1]].toks[ij[2]]

IsLastToken(ij) == ij[1] = Len(trail) /\ ij[2] = Len(trail[ij[1]].toks)

\* A PROP token with a value-type tag outside 1..27 for a class id that has
\* instances registered.
UnknownProp(t) ==
    t.tok = TOKEN_PROP /\ t.info.vt \notin 1 .. 27 /\ t.info.objs # <<>>

HasProperty(o, name) ==
    \E k \in 1 .. Len(parser.heap[o].properties) :
        parser.heap[o].properties[k].name = name

PropertyOf(o, name) ==
    LET k == CHOOSE x \in 1 .. Len(parser.heap[o].properties) :
                 parser.heap[o].properties[x].name = name
    IN  parser.heap[o].properties[k].value

\* The chunks of the file the input was made from.
FileChunks == BaseFiles[input.file].chunks

\* C3: a PROP token whose value-type tag is outside 1..27, for a class id
\* with N >= 1 registered instances, is handled without an exception; each of
\* the N instances has the property name set afterwards, to a string (when
\* the token set it last); the token does not end its chunk, and the chunks
\* that follow in the file are all read before parse returns.
C3_UnknownTypeSound ==
    \A ij \in Dispatched :
        UnknownProp(TokenAt(ij)) =>
            /\ TokenAt(ij).err = "none"
            /\ \A o \in Range(TokenAt(ij).info.objs) :
                   /\ HasProperty(o, TokenAt(ij).info.name)
                   /\ IsLastToken(ij) =>
                          PropertyOf(o, TokenAt(ij).info.name).t = "str"
            /\ ij[2] = Len(trail[ij[1]].toks) =>
                   trail[ij[1]].closed \in {"open", "exhausted"}
            /\ pc # "raised"
            /\ (pc = "returned" /\ input.kind # "prefix") =>
                   Len(trail) = Len(FileChunks)

\* The unknown tag 254 in the first chunk of the second file: the shared
\* length is implausible, the first instance gets the u32-length string "w",
\* the second the placeholder, and the second chunk has been read.
C3_Witness ==
    /\ input.kind = "whole" /\ input.file = 2 /\ pc = "returned"
    /\ Len(trail) = 2 /\ Len(trail[1].toks) = 2
    /\ UnknownProp(trail[1].toks[2])
    /\ trail[1].toks[2].info.vt = 254
    /\ Len(trail[1].toks[2].info.objs) = 2
    /\ PropertyOf(trail[1].toks[2].info.objs[1], <<86>>) = Str(<<119>>)
    /\ PropertyOf(trail[1].toks[2].info.objs[2], <<86>>) = Str(UNKNOWN_TEXT)
    /\ Len(trail[2].toks) > 0

\* A PRNT token whose referent lists were read: the linking loop ran.
LinkedPrnt(t) == t.tok = TOKEN_PRNT /\ t.info.children # <<>>

\* Pair k of a PRNT token names a referent that the map did not hold.
MissingReferent(t, k) ==
    \/ t.info.children[k] \notin t.info.keys
    \/ t.info.parents[k] # -1 /\ t.info.parents[k] \notin t.info.keys

\* C10: a pair of a PRNT token whose child or (non -1) parent referent is
\* not in the instance map is dropped without an error and without creating
\* an instance, every other pair of the token is still applied, and the
\* tokens after it in the chunk are still processed (the token does not end
\* its chunk).
C10_EdgeDropped ==
    \A ij \in Dispatched :
        (/\ LinkedPrnt(TokenAt(ij))
         /\ \E k \in 1 .. Len(TokenAt(ij).info.children) :
                MissingReferent(TokenAt(ij), k)) =>
            /\ TokenAt(ij).err = "none"
            /\ TokenAt(ij).info.applied = Len(TokenAt(ij).info.children)
            /\ ij[2] = Len(trail[ij[1]].toks) =>
                   trail[ij[1]].closed \in {"open", "exhausted"}

\* The second file, whole: the PRNT of its second chunk names the missing
\* referent 9 in its second pair; the KeyError ends the chunk after one
\* pair, so no root is marked and the property after it is never assigned.
C10_Failure ==
    /\ input.kind = "whole" /\ input.file = 2 /\ pc = "returned"
    /\ trail[2].toks[2].tok = TOKEN_PRNT
    /\ trail[2].toks[2].err = "KeyError"
    /\ trail[2].toks[2].info.applied = 1
    /\ Len(trail[2].toks) = 2 /\ trail[2].closed = "error"
    /\ parser.root = 0
    /\ ~HasProperty(Lookup(parser, 3), <<78>>)

\* The tokens a chunk's loop dispatched: where, which, and how each ended.
TokenTrace(e) ==
    [j \in 1 .. Len(e.toks) |-> <<e.toks[j].at, e.toks[j].tok, e.toks[j].err>>]

\* The token loop of chunk ci ended on an unknown token or an exception.
Aborted(i) ==
    Len(trail) >= i /\ trail[i].closed \in {"error", "unknown_token"}

\* C2 as stated: when the corrupted payload of chunk ci makes its token
\* loop fail, only ci is aborted: every later chunk is read and its tokens
\* are processed as in the uncorrupted file, and the instances registered by
\* the chunks before ci are still in the returned instance map.
C2_AsStated ==
    (input.kind = "corrupt" /\ pc = "returned" /\ Aborted(input.chunk)) =>
        /\ Len(trail) = Len(FileChunks)
        /\ \A j \in input.chunk + 1 .. Len(trail) :
               /\ trail[j].closed = BaseRuns[input.file].trail[j].closed
               /\ TokenTrace(trail[j]) = TokenTrace(BaseRuns[input.file].trail[j])
        /\ \A m \in 1 .. Len(trail[input.chunk].map) :
               /\ trail[input.chunk].map[m].key \in Keys(parser)
               /\ Lookup(parser, trail[input.chunk].map[m].key)
                      = trail[input.chunk].map[m].obj

\* Chunk cj was read as it stands in the uncorrupted file and its token
\* loop was run from its first byte.
ReadAsInBase(j) ==
    /\ trail[j].at = BaseRuns[input.file].trail[j].at
    /\ trail[j].len = BaseRuns[input.file].trail[j].len
    /\ trail[j].payload = BaseRuns[input.file].trail[j].payload
    /\ trail[j].toks # <<>> =>
           /\ trail[j].toks[1].at = 0
           /\ trail[j].toks[1].tok = trail[j].payload[1]
    /\ (j < Len(trail) \/ pc # "tokens") =>
           trail[j].toks # <<>> /\ trail[j].closed # "open"

\* C2, amended: the corrupted payload of chunk ci never ends the parse:
\* every later chunk is still read, at its place and with its payload, and
\* its token loop is run from its first token (how far it gets depends on
\* the instance map that ci left behind); every referent registered by the
\* chunks before ci is still a key of the instance map, under which ci may
\* have registered a new instance.
C2_ChunkIsolation ==
    input.kind = "corrupt" =>
        /\ pc # "raised"
        /\ pc = "returned" => Len(trail) = Len(FileChunks)
        /\ \A j \in input.chunk + 1 .. Len(trail) : ReadAsInBase(j)
        /\ Len(trail) >= input.chunk =>
               trail[input.chunk].keys \subseteq Keys(parser)

\* The first file with its second chunk corrupted so that its token loop
\* fails: the first chunk's referent is still a key and the third chunk's
\* tokens were dispatched.
C2_Witness ==
    /\ input.kind = "corrupt" /\ input.file = 1 /\ input.chunk = 2
    /\ pc = "returned" /\ Aborted(2)
    /\ Len(trail) = 3 /\ Len(trail[3].toks) >= 2
    /\ trail[2].keys = {1} /\ 1 \in Keys(parser)

----------------------------------------------------------------------------
(* Python str at the code points below 256 (every text of the model is     *)
(* decoded from bytes that are ASCII or single Latin-1 letters).           *)

\* c.isalnum()
IsAlnum(c) ==
    c \in (48 .. 57) \cup (65 .. 90) \cup (97 .. 122) \cup {170, 181}
          \cup (178 .. 179) \cup (185 .. 186) \cup (188 .. 190)
          \cup (192 .. 214) \cup (216 .. 246) \cup (248 .. 255)

\* c.isspace(), which is also \s of re on a str.
IsSpace(c) ==
    (c >= 9 /\ c <= 13) \/ (c >= 28 /\ c <= 32) \/ c = 133 \/ c = 160

\* str(n) for n >= 0.
RECURSIVE Dec(_)
Dec(n) == IF n < 10 THEN <<48 + n>> ELSE Dec(n \div 10) \o <<48 + (n % 10)>>

----------------------------------------------------------------------------
(* _safe_name and the files written under the names it returns.  A path    *)
(* is [dir, name]; the filesystem sink is the set of paths that exist.     *)

\* "".join(c if c.isalnum() or c in "._- " else "_" for c in base)
Sanitize(base) ==
    [k \in 1 .. Len(base) |->
        IF IsAlnum(base[k]) \/ base[k] \in {46, 95, 45, 32} THEN base[k] ELSE 95]

\* f"{safe}{ext}" for i = 0 (before the loop), f"{safe}_{i}{ext}" in it.
NameWith(safe, i, ext) ==
    IF i = 0 THEN safe \o ext ELSE safe \o <<95>> \o Dec(i) \o ext

\* _safe_name without the os.path.exists loop: the first name, whatever
\* exists.
safe_name_unprobed(base, dir, ext, files) ==
    [dir |-> dir, name |-> NameWith(Sanitize(base), 0, ext)]

\* _safe_name(base, out_dir, ext) on a directory tree holding `files`: the
\* loop tries safe, safe_1, safe_2, ... and returns the first path that does
\* not exist (one of the first |files| + 1 names is free).
safe_name(base, dir, ext, files) ==
    LET safe == Sanitize(base)
        free(i) == [dir |-> dir, name |-> NameWith(safe, i, ext)] \notin files
        first == CHOOSE i \in 0 .. Cardinality(files) :
                     free(i) /\ \A j \in 0 .. i - 1 : ~free(j)
    IN  [dir |-> dir, name |-> NameWith(safe, first, ext)]

\* ".lua", ".png", ".jpg", ".txt"
EXT_LUA == <<46, 108, 117, 97>>

EXT_PNG == <<46, 112, 110, 103>>

EXT_JPG == <<46, 106, 112, 103>>

EXT_TXT == <<46, 116, 120, 116>>

\* "embedded_"
EMBEDDED == <<101, 109, 98, 101, 100, 100, 101, 100, 95>>

\* The longest sequence of writes followed.
MaxWrites == 3

\* The indices a caller numbers its bases with.
Indices == {0, 1}

\* Script names as the callers derive them from file content:
\* "script", "x", "x_0", "a/b".
ScriptNames == {<<115, 99, 114, 105, 112, 116>>, <<120>>, <<120, 95, 48>>, <<97, 47, 98>>}

\* One write of a caller: the path is chosen by _safe_name and the file is
\* opened for writing at once (lines 43-45, 78-80, 378-380, 489-491).  The
\* record says what was asked for, what was returned, and whether that path
\* existed when it was written.
WriteFile(dir, base, ext) ==
    /\ trail' = Append(trail,
                    [dir |-> dir, safe |-> Sanitize(base), ext |-> ext,
                     path |-> safe_name(base, dir, ext, fs),
                     existed |-> safe_name(base, dir, ext, fs) \in fs])
    /\ fs' = fs \cup {safe_name(base, dir, ext, fs)}
    /\ UNCHANGED <<input, pc, data, parser, options, work, result>>

\* extract_from_bytes, lines 378-381, and extract_from_binary, 489-492.
WriteScript ==
    \E name \in ScriptNames, idx \in Indices :
        /\ pc = "names" /\ Len(trail) < MaxWrites
        /\ WriteFile("Scripts", name \o <<95>> \o Dec(idx), EXT_LUA)

\* extract_pngs, lines 43-46.
WritePng ==
    \E idx \in Indices :
        /\ pc = "names" /\ Len(trail) < MaxWrites
        /\ WriteFile("Images", EMBEDDED \o Dec(idx), EXT_PNG)

\* extract_jpegs, lines 78-81.
WriteJpeg ==
    \E idx \in Indices :
        /\ pc = "names" /\ Len(trail) < MaxWrites
        /\ WriteFile("Images", EMBEDDED \o Dec(idx), EXT_JPG)

NameInit ==
    /\ pc = "names" /\ fs = {} /\ trail = <<>>
    /\ input = Unused /\ data = Unused /\ parser = Unused
    /\ options = Unused /\ work = Unused /\ result = Unused

NameNext == WriteScript \/ WritePng \/ WriteJpeg

\* Extractions into one output directory, as the writes they make.
NameSpec == NameInit /\ [][NameNext]_vars

\* The writes made so far for the same directory, sanitized base and
\* extension as write k, in order.
SameBase(k) ==
    SelectSeq([j \in 1 .. Len(trail) |-> j],
              LAMBDA j : /\ trail[j].dir = trail[k].dir
                         /\ trail[j].safe = trail[k].safe
                         /\ trail[j].ext = trail[k].ext)

\* The suffix of the name write k was given (0 for the bare base).
SuffixOf(k) ==
    CHOOSE i \in 0 .. Len(trail) :
        trail[k].path.name = NameWith(trail[k].safe, i, trail[k].ext)

\* C5 as stated: no write targets a path that exists, and for a fixed
\* sanitized base the successive returned names are base, base_1, base_2, ...
C5_AsStated ==
    \A k \in 1 .. Len(trail) :
        /\ ~trail[k].existed
        /\ \A n \in 1 .. Len(SameBase(k)) :
               SameBase(k)[n] = k => SuffixOf(k) = n - 1

\* C5, amended: no write targets a path that exists: the path _safe_name
\* returns does not exist when it is returned and is written before the next
\* one is chosen; for a fixed sanitized base the successive returned names
\* are taken from base, base_1, base_2, ... with a strictly increasing
\* suffix, each the first name of that list that does not exist (a suffix is
\* skipped when a file written for another base carries that name).
C5_FilenameUniqueness ==
    \A k \in 1 .. Len(trail) :
        /\ ~trail[k].existed
        /\ trail[k].path \in fs
        /\ \A j \in 1 .. k - 1 :
               /\ trail[j].path # trail[k].path
               /\ (/\ trail[j].dir = trail[k].dir
                   /\ trail[j].safe = trail[k].safe
                   /\ trail[j].ext = trail[k].ext) => SuffixOf(j) < SuffixOf(k)
        /\ \A i \in 0 .. SuffixOf(k) - 1 :
               \E j \in 1 .. k - 1 :
                   trail[j].path = [dir |-> trail[k].dir,
                                    name |-> NameWith(trail[k].safe, i, trail[k].ext)]

\* Three writes for the base script_0: script_0.lua, script_0_1.lua,
\* script_0_2.lua.
C5_Witness ==
    /\ pc = "names" /\ Len(trail) = 3
    /\ \A k \in 1 .. 3 :
           /\ trail[k].safe = <<115, 99, 114, 105, 112, 116, 95, 48>>
           /\ SuffixOf(k) = k - 1

----------------------------------------------------------------------------
(* Python str operations used by the script canonicalizer.                 *)

\* s.lower()
Lower(s) ==
    LET upper(c) == \/ c >= 65 /\ c <= 90
                    \/ c >= 192 /\ c <= 222 /\ c # 215
    IN  [k \in 1 .. Len(s) |-> IF upper(s[k]) THEN s[k] + 32 ELSE s[k]]

\* s.strip()
Strip(s) ==
    LET lo == CHOOSE k \in 1 .. Len(s) :
                  ~IsSpace(s[k]) /\ \A j \in 1 .. k - 1 : IsSpace(s[j])
        hi == CHOOSE k \in 1 .. Len(s) :
                  ~IsSpace(s[k]) /\ \A j \in k + 1 .. Len(s) : IsSpace(s[j])
    IN  IF \A k \in 1 .. Len(s) : IsSpace(s[k]) THEN <<>> ELSE SubSeq(s, lo, hi)

\* s.splitlines(): the line boundaries are \n, \r, \r\n, \v, \f, \x1c,
\* \x1d, \x1e and \x85; no empty last line.
SplitLines(s) ==
    LET IsBreak(c) == (c >= 10 /\ c <= 13) \/ (c >= 28 /\ c <= 30) \/ c = 133
        crlf(k) == s[k] = 13 /\ k < Len(s) /\ s[k + 1] = 10
        ends == SelectSeq([k \in 1 .. Len(s) |-> k],
                          LAMBDA k : IsBreak(s[k]) /\ ~crlf(k))
        from(n) == IF n = 1 THEN 1 ELSE ends[n - 1] + 1
        to(n) == IF s[ends[n]] = 10 /\ ends[n] > from(n) /\ s[ends[n] - 1] = 13
                 THEN ends[n] - 2 ELSE ends[n] - 1
        whole == [n \in 1 .. Len(ends) |-> SubSeq(s, from(n), to(n))]
        rest == SubSeq(s, from(Len(ends) + 1), Len(s))
    IN  IF rest = <<>> THEN whole ELSE Append(whole, rest)

\* "\n".join(lines)
JoinLines(lines) ==
    Concat([n \in 1 .. Len(lines) |->
               IF n = 1 THEN lines[n] ELSE <<10>> \o lines[n]])

\* re.sub(r"\s+", " ", s): every run of whitespace becomes one space.
collapse_ws(s) ==
    LET first(k) == k = 1 \/ ~IsSpace(s[k - 1])
        kept == SelectSeq([k \in 1 .. Len(s) |-> k],
                          LAMBDA k : ~IsSpace(s[k]) \/ first(k))
    IN  [n \in 1 .. Len(kept) |-> IF IsSpace(s[kept[n]]) THEN 32 ELSE s[kept[n]]]

\* s.replace('\x00', '')
StripNul(s) == SelectSeq(s, LAMBDA c : c # 0)

\* lua_patterns of _clean_lua_script: function, local, end, print, --, if,
\* then, else, for, while, script, game, workspace, require, module.
lua_patterns ==
    {<<102, 117, 110, 99, 116, 105, 111, 110>>, <<108, 111, 99, 97, 108>>,
     <<101, 110, 100>>, <<112, 114, 105, 110, 116>>, <<45, 45>>,
     <<105, 102>>, <<116, 104, 101, 110>>, <<101, 108, 115, 101>>,
     <<102, 111, 114>>, <<119, 104, 105, 108, 101>>,
     <<115, 99, 114, 105, 112, 116>>, <<103, 97, 109, 101>>,
     <<119, 111, 114, 107, 115, 112, 97, 99, 101>>,
     <<114, 101, 113, 117, 105, 114, 101>>, <<109, 111, 100, 117, 108, 101>>}

\* The words that exempt a short script from the length filter: function,
\* return, local, require.
strong_words ==
    {<<102, 117, 110, 99, 116, 105, 111, 110>>,
     <<114, 101, 116, 117, 114, 110>>, <<108, 111, 99, 97, 108>>,
     <<114, 101, 113, 117, 105, 114, 101>>}

\* None, and a str, as the values a cleaning returns.
None == [none |-> TRUE, str |-> <<>>]

Some(s) == [none |-> FALSE, str |-> s]

\* _clean_lua_script(text)
clean_lua_script(text) ==
    LET t == StripNul(text)
        lines == SplitLines(t)
        stripped == [n \in 1 .. Len(lines) |-> Strip(lines[n])]
        cleaned == JoinLines(SelectSeq(stripped, LAMBDA l : l # <<>>))
        low == Lower(t)
    IN  IF Len(t) < 10 THEN None
        ELSE IF ~\E kw \in lua_patterns : Contains(low, kw) THEN None
        ELSE IF cleaned = <<>> THEN None
        ELSE Some(cleaned)

----------------------------------------------------------------------------
(* The script canonicalizer of extract_from_bytes (lines 339-381).         *)
(* norm_map is an insertion-ordered dict, kept as a sequence of            *)
(* [key, orig, cleaned].  The key of the source is the SHA-256 digest of   *)
(* the canonical form; the digest is taken to be collision-free here, so   *)
(* two keys are equal exactly when the canonical forms are, and the entry  *)
(* carries the canonical form as its key.                                  *)

\* Line 350: a short script without a strong word is not kept.
too_weak(cleaned) ==
    Len(cleaned) < 120 /\ ~\E k \in strong_words : Contains(cleaned, k)

\* The test of line 358 with >= for >: the latest of equally long variants
\* wins.
replaces_on_tie(cleaned, prev) == Len(cleaned) >= Len(prev)

\* Line 358: len(cleaned) > len(prev[1]).
replaces(cleaned, prev) == Len(cleaned) > Len(prev)

\* One turn of the loop of lines 341-359 for the candidate src: what it
\* did and the map after it.
canon_turn(norm_map, src) ==
    LET c == clean_lua_script(src)
        norm == collapse_ws(Strip(c.str))
        hits == {k \in 1 .. Len(norm_map) : norm_map[k].key = norm}
        at == CHOOSE k \in hits : TRUE
        entry == [key |-> norm, orig |-> src, cleaned |-> c.str]
    IN  IF src = <<>> \/ c.none \/ too_weak(c.str)
        THEN [did |-> "skip", map |-> norm_map]
        ELSE IF hits = {}
        THEN [did |-> "insert", map |-> Append(norm_map, entry)]
        ELSE IF replaces(c.str, norm_map[at].cleaned)
        THEN [did |-> "replace", map |-> [norm_map EXCEPT ![at] = entry]]
        ELSE [did |-> "keep", map |-> norm_map]

\* The ascending sort of the table read backwards: longest first, and
\* equally long entries in the reverse of their insertion order.
sorted_items_reversed(norm_map) ==
    LET before(j, i) ==
            \/ Len(norm_map[j].cleaned) > Len(norm_map[i].cleaned)
            \/ (Len(norm_map[j].cleaned) = Len(norm_map[i].cleaned) /\ j > i)
        rank(i) == 1 + Cardinality({j \in 1 .. Len(norm_map) : before(j, i)})
    IN  [p \in 1 .. Len(norm_map) |->
            norm_map[CHOOSE i \in 1 .. Len(norm_map) : rank(i) = p]]

\* Line 366: sorted(..., key=len of cleaned, reverse=True); the sort is
\* stable, so equally long entries stay in insertion order.
sorted_items(norm_map) ==
    LET before(j, i) ==
            \/ Len(norm_map[j].cleaned) > Len(norm_map[i].cleaned)
            \/ (Len(norm_map[j].cleaned) = Len(norm_map[i].cleaned) /\ j < i)
        rank(i) == 1 + Cardinality({j \in 1 .. Len(norm_map) : before(j, i)})
    IN  [p \in 1 .. Len(norm_map) |->
            norm_map[CHOOSE i \in 1 .. Len(norm_map) : rank(i) = p]]

\* Lines 369-376: the name taken from the original text, after "Name">
\* up to the next <, or after Script name=" up to the next ", else
\* "script".  s.split(m)[1].split(d)[0] is the text between the first two
\* occurrences of m, cut at the first d.
script_name(orig) ==
    LET NAME_TAG == <<34, 78, 97, 109, 101, 34, 62>>
        SCRIPT_TAG == <<83, 99, 114, 105, 112, 116, 32, 110, 97, 109, 101, 61, 34>>
        upto(s, d) == IF Find(s, d, 0) = -1 THEN s ELSE Slice(s, 0, Find(s, d, 0))
        after(m) == Slice(orig, Find(orig, m, 0) + Len(m), Len(orig))
        field(m, d) == upto(upto(after(m), m), d)
    IN  IF Contains(orig, NAME_TAG) THEN field(NAME_TAG, <<60>>)
        ELSE IF Contains(orig, SCRIPT_TAG) THEN field(SCRIPT_TAG, <<34>>)
        ELSE <<115, 99, 114, 105, 112, 116>>

\* The directory dir itself, as a path of the sink.
Dir(dir) == [dir |-> dir, name |-> <<>>]

\* Lines 367-381: the entries written in order, each under the name
\* _safe_name returns in the directory as the writes before it left it.
\* out is [files, log]: the paths that exist and the writes made, each
\* [path, body, orig, existed].
RECURSIVE write_scripts(_, _, _)
write_scripts(items, idx, out) ==
    IF idx >= Len(items) THEN out
    ELSE LET it == items[idx + 1]
             path == safe_name(script_name(it.orig) \o <<95>> \o Dec(idx),
                               "Scripts", EXT_LUA, out.files)
         IN  write_scripts(items, idx + 1,
                 [files |-> out.files \cup {path},
                  log |-> Append(out.log,
                      [path |-> path, body |-> it.cleaned, orig |-> it.orig,
                       existed |-> path \in out.files])])

----------------------------------------------------------------------------
(* The canonicalizer run on a list of candidates, one turn of its loop at  *)
(* a time, then the sort and the writes.  input is the list `combined`,    *)
(* work the loop counter and norm_map, trail the log of the writes.        *)

\* The longest list of candidates fed to the canonicalizer.
MaxCands == 3

\* Candidates: a short script and variants of it that differ in whitespace
\* only (longer, equally long, and equal after cleaning); texts the
\* cleaning rejects; a text of twelve characters, seven of them left by
\* the cleaning; a second short script, as long as the first; a text with
\* a name tag; and a pair of long texts
\* without a strong word on either side of the length filter.
Candidates ==
    {\* "local x=12"
     <<108, 111, 99, 97, 108, 32, 120, 61, 49, 50>>,
     \* "local  x=12"
     <<108, 111, 99, 97, 108, 32, 32, 120, 61, 49, 50>>,
     \* "local\tx=12"
     <<108, 111, 99, 97, 108, 9, 120, 61, 49, 50>>,
     \* " local x=12\n"
     <<32, 108, 111, 99, 97, 108, 32, 120, 61, 49, 50, 10>>,
     \* "print(12345)", "", "local x"
     <<112, 114, 105, 110, 116, 40, 49, 50, 51, 52, 53, 41>>,
     <<>>,
     <<108, 111, 99, 97, 108, 32, 120>>,
     \* "  local x  \n"
     <<32, 32, 108, 111, 99, 97, 108, 32, 120, 32, 32, 10>>,
     \* "local y=34"
     <<108, 111, 99, 97, 108, 32, 121, 61, 51, 52>>,
     \* "Name">n<local y=1
     <<34, 78, 97, 109, 101, 34, 62, 110, 60, 108, 111, 99, 97, 108, 32, 121, 61, 49>>,
     \* "if " and 116 a, 119 long; "if  " and 116 a, 120 long
     <<105, 102, 32>> \o [k \in 1 .. 116 |-> 97],
     <<105, 102, 32, 32>> \o [k \in 1 .. 116 |-> 97]}

CanonInit ==
    /\ input \in UNION {[1 .. n -> Candidates] : n \in 0 .. MaxCands}
    /\ pc = "canon_loop"
    /\ work = [i |-> 0, norm_map |-> <<>>]
    /\ fs = {} /\ trail = <<>> /\ result = <<>>
    /\ data = Unused /\ parser = Unused /\ options = Unused

\* One turn of the loop of lines 341-359 that does `did`.
CanonTurn(did) ==
    /\ work.i < Len(input)
    /\ \E turn \in {canon_turn(work.norm_map, input[work.i + 1])} :
           /\ turn.did = did
           /\ work' = [i |-> work.i + 1, norm_map |-> turn.map]
    /\ UNCHANGED <<input, pc, data, parser, trail, fs, options, result>>

\* Lines 342-351: the candidate is empty, rejected by the cleaning, or short
\* without a strong word.
CanonSkip == pc = "canon_loop" /\ CanonTurn("skip")

\* Lines 357-359, prev is None.
CanonInsert == pc = "canon_loop" /\ CanonTurn("insert")

\* Lines 357-359, the cleaned text is longer than the one kept.
CanonReplace == pc = "canon_loop" /\ CanonTurn("replace")

\* Lines 357-358, the cleaned text is not longer than the one kept.
CanonKeep == pc = "canon_loop" /\ CanonTurn("keep")

\* Lines 361-381: the directory, the sort and the writes.
CanonEmit ==
    /\ pc = "canon_loop" /\ work.i = Len(input)
    /\ LET out == write_scripts(sorted_items(work.norm_map), 0,
                      [files |-> fs \cup {Dir("Scripts")}, log |-> <<>>])
       IN  /\ fs' = out.files
           /\ trail' = out.log
           /\ result' = [k \in 1 .. Len(out.log) |-> out.log[k].path]
    /\ pc' = "canon_done"
    /\ UNCHANGED <<input, data, parser, options, work>>

CanonNext ==
    CanonSkip \/ CanonInsert \/ CanonReplace \/ CanonKeep \/ CanonEmit

CanonSpec == CanonInit /\ [][CanonNext]_vars

\* A candidate has a cleaned text when the cleaning does not reject it
\* (lines 342-351).
HasCleaned(src) ==
    /\ src # <<>>
    /\ ~clean_lua_script(src).none
    /\ ~too_weak(clean_lua_script(src).str)

CleanedOf(src) == clean_lua_script(src).str

FormOf(src) == collapse_ws(Strip(CleanedOf(src)))

\* C4: for any two candidates fed to the canonicalizer whose cleaned texts
\* have the same whitespace-collapsed form, exactly one script is emitted
\* for that form and its body is the longer of the two cleaned texts, the
\* first inserted when they are equally long.  With more than two
\* candidates of one form the body is the longest cleaned text of them all,
\* the first inserted among the longest, and it is written for that
\* candidate's original text.
C4_DedupCanonical ==
    pc = "canon_done" =>
        \A cleaned \in {SubSeq([k \in 1 .. Len(input) |-> CleanedOf(input[k])],
                               1, Len(input))} :
        \A has \in {SubSeq([k \in 1 .. Len(input) |-> HasCleaned(input[k])],
                           1, Len(input))} :
        \A form \in {SubSeq([k \in 1 .. Len(input) |-> collapse_ws(Strip(cleaned[k]))],
                            1, Len(input))} :
        \A written \in {SubSeq([w \in 1 .. Len(trail) |->
                                   collapse_ws(Strip(trail[w].body))],
                               1, Len(trail))} :
            LET same(i) == {k \in 1 .. Len(input) : has[k] /\ form[k] = form[i]}
                emitted(i) == {w \in 1 .. Len(trail) : written[w] = form[i]}
                best(i) == CHOOSE k \in same(i) :
                               \A m \in same(i) :
                                   \/ Len(cleaned[k]) > Len(cleaned[m])
                                   \/ Len(cleaned[k]) = Len(cleaned[m]) /\ k <= m
                longer(i, j) == IF Len(cleaned[j]) > Len(cleaned[i]) THEN j ELSE i
            IN  \A i, j \in 1 .. Len(input) :
                    (i < j /\ has[i] /\ has[j] /\ form[i] = form[j]) =>
                        /\ Cardinality(emitted(i)) = 1
                        /\ \A w \in emitted(i) :
                               /\ trail[w].body = cleaned[best(i)]
                               /\ trail[w].orig = input[best(i)]
                               /\ same(i) = {i, j} =>
                                      trail[w].body = cleaned[longer(i, j)]
                        /\ Cardinality({k \in 1 .. Len(result) :
                               result[k] \in {trail[w].path : w \in emitted(i)}}) = 1

\* Two candidates with the same canonical form whose cleaned texts differ
\* and are equally long: one script is written, with the body of the first.
C4_Witness ==
    /\ pc = "canon_done" /\ Len(input) = 2 /\ Len(trail) = 1
    /\ HasCleaned(input[1]) /\ HasCleaned(input[2])
    /\ FormOf(input[1]) = FormOf(input[2])
    /\ CleanedOf(input[1]) # CleanedOf(input[2])
    /\ Len(CleanedOf(input[1])) = Len(CleanedOf(input[2]))
    /\ trail[1].body = CleanedOf(input[1])

----------------------------------------------------------------------------
(* extract_pngs and extract_jpegs.  The scan is a machine                  *)
(* [pc, start, idx, i, files, log]: start, idx and i are the locals of the *)
(* source, files the paths that exist, log the writes made, each           *)
(* [path, body, existed].                                                  *)

\* b"\x89PNG\r\n\x1a\n"
PNG_SIG == <<137, 80, 78, 71, 13, 10, 26, 10>>

\* b'IEND'
IEND == <<73, 69, 78, 68>>

\* b"\xff\xd8", b"\xff\xd9"
JPEG_SOI == <<255, 216>>

JPEG_EOI == <<255, 217>>

\* extract_pngs with a walk that runs off the buffer resuming the search at
\* the signature it started from.
png_step_resume_at_idx(d, m) ==
    LET idx == Find(d, PNG_SIG, m.start)
        length == U32Of(<<d[m.i + 4], d[m.i + 3], d[m.i + 2], d[m.i + 1]>>)
        end_idx == m.i + 12
        path == safe_name(EMBEDDED \o Dec(m.idx), "Images", EXT_PNG, m.files)
    IN  IF m.pc = "png_open"
        THEN [m EXCEPT !.pc = "png_find", !.files = @ \cup {Dir("Images")}]
        ELSE IF m.pc = "png_find"
        THEN IF idx = -1 THEN [m EXCEPT !.pc = "png_done"]
             ELSE [m EXCEPT !.pc = "png_walk", !.idx = idx, !.i = idx + Len(PNG_SIG)]
        ELSE IF m.pc # "png_walk" THEN m
        ELSE IF m.i + 8 > Len(d)
        THEN [m EXCEPT !.pc = "png_find", !.start = m.idx]
        ELSE IF Slice(d, m.i + 4, m.i + 8) = IEND
        THEN [m EXCEPT !.pc = "png_find", !.start = end_idx,
                       !.files = @ \cup {path},
                       !.log = Append(@, [path |-> path,
                                          body |-> Slice(d, m.idx, end_idx),
                                          existed |-> path \in m.files])]
        ELSE [m EXCEPT !.i = m.i + 4 + 4 + length + 4]

\* One statement group of extract_pngs(data, out_dir) on the buffer d.
png_step(d, m) ==
    LET idx == Find(d, PNG_SIG, m.start)
        \* int.from_bytes(data[i:i+4], 'big')
        length == U32Of(<<d[m.i + 4], d[m.i + 3], d[m.i + 2], d[m.i + 1]>>)
        end_idx == m.i + 12
        path == safe_name(EMBEDDED \o Dec(m.idx), "Images", EXT_PNG, m.files)
    IN  IF m.pc = "png_open"
        THEN [m EXCEPT !.pc = "png_find", !.files = @ \cup {Dir("Images")}]
        ELSE IF m.pc = "png_find"
        THEN IF idx = -1 THEN [m EXCEPT !.pc = "png_done"]
             ELSE [m EXCEPT !.pc = "png_walk", !.idx = idx, !.i = idx + Len(PNG_SIG)]
        ELSE IF m.pc # "png_walk" THEN m
        ELSE IF m.i + 8 > Len(d)
        THEN [m EXCEPT !.pc = "png_find", !.start = m.idx + 1]
        ELSE IF Slice(d, m.i + 4, m.i + 8) = IEND
        THEN [m EXCEPT !.pc = "png_find", !.start = end_idx,
                       !.files = @ \cup {path},
                       !.log = Append(@, [path |-> path,
                                          body |-> Slice(d, m.idx, end_idx),
                                          existed |-> path \in m.files])]
        ELSE [m EXCEPT !.i = m.i + 4 + 4 + length + 4]

RECURSIVE PngRun(_, _)
PngRun(d, m) == IF m.pc = "png_done" THEN m ELSE PngRun(d, png_step(d, m))

\* extract_pngs(data, out_dir) run to its end on a sink holding `files`:
\* [files, log].
extract_pngs(d, files) ==
    LET done(m) == [files |-> m.files, log |-> m.log]
    IN  done(PngRun(d, [pc |-> "png_open", start |-> 0, idx |-> 0, i |-> 0,
                        files |-> files, log |-> <<>>]))

\* The loop of extract_jpegs from `start`: out is [files, log].
RECURSIVE JpegRun(_, _, _)
JpegRun(d, start, out) ==
    LET s == Find(d, JPEG_SOI, start)
        e == Find(d, JPEG_EOI, s + 2)
        path == safe_name(EMBEDDED \o Dec(s), "Images", EXT_JPG, out.files)
    IN  IF s = -1 THEN out
        ELSE IF e = -1 THEN out
        ELSE JpegRun(d, e + 2,
                 [files |-> out.files \cup {path},
                  log |-> Append(out.log, [path |-> path,
                                           body |-> Slice(d, s, e + 2),
                                           existed |-> path \in out.files])])

\* extract_jpegs(data, out_dir)
extract_jpegs(d, files) ==
    JpegRun(d, 0, [files |-> files \cup {Dir("Images")}, log |-> <<>>])

----------------------------------------------------------------------------
(* extract_pngs on a valid PNG surrounded by other bytes.                  *)

\* A valid PNG: the signature, IHDR of a 1x1 greyscale image, IDAT with its
\* zlib stream, IEND, every chunk with its CRC.
ValidPng ==
    <<137, 80, 78, 71, 13, 10, 26, 10, 0, 0, 0, 13, 73, 72, 68, 82, 0, 0,
      0, 1, 0, 0, 0, 1, 8, 0, 0, 0, 0, 58, 126, 155, 85, 0, 0, 0, 10, 73,
      68, 65, 84, 120, 156, 99, 96, 0, 0, 0, 2, 0, 1, 72, 175, 164, 113, 0,
      0, 0, 0, 73, 69, 78, 68, 174, 66, 96, 130>>

\* The bytes before the PNG: nothing, a zero byte, half a signature, a
\* whole PNG, a signature alone, a signature and the header of a chunk of
\* length 4 (whose data and CRC are then the first bytes of what follows),
\* and a signature followed by an empty IEND chunk without its CRC.
Prefixes ==
    {<<>>, <<0>>, <<137, 80>>, ValidPng, PNG_SIG,
     PNG_SIG \o <<0, 0, 0, 4, 120, 120, 120, 120>>,
     PNG_SIG \o <<0, 0, 0, 0>> \o IEND}

\* The bytes after it: nothing, a zero byte, a signature alone, the word
\* IEND, a whole PNG.
Suffixes == {<<>>, <<0>>, PNG_SIG, <<0, 0, 0, 0>> \o IEND, ValidPng}

PngInit ==
    /\ input \in {[pre |-> pre, png |-> ValidPng, suf |-> suf] :
                     pre \in Prefixes, suf \in Suffixes}
    /\ data = input.pre \o input.png \o input.suf
    /\ pc = "png_open"
    /\ work = [start |-> 0, idx |-> 0, i |-> 0]
    /\ fs = {} /\ trail = <<>> /\ result = <<>>
    /\ parser = Unused /\ options = Unused

PngCur ==
    [pc |-> pc, start |-> work.start, idx |-> work.idx, i |-> work.i,
     files |-> fs, log |-> trail]

\* The statement group at pc is run; results is the list of the paths
\* written.
PngCommit(m) ==
    /\ pc' = m.pc
    /\ work' = [start |-> m.start, idx |-> m.idx, i |-> m.i]
    /\ fs' = m.files
    /\ trail' = m.log
    /\ result' = [k \in 1 .. Len(m.log) |-> m.log[k].path]
    /\ UNCHANGED <<input, data, parser, options>>

\* Lines 25-27.
PngOpen == pc = "png_open" /\ PngCommit(png_step(data, PngCur))

\* Lines 29-33: a signature is found at or after start.
PngFind ==
    /\ pc = "png_find" /\ Find(data, PNG_SIG, work.start) # -1
    /\ PngCommit(png_step(data, PngCur))

\* Lines 29-31 and 63: no signature is left.
PngReturn ==
    /\ pc = "png_find" /\ Find(data, PNG_SIG, work.start) = -1
    /\ PngCommit(png_step(data, PngCur))

\* Lines 35-48: the chunk at i is IEND; the file is written.
PngIend ==
    /\ pc = "png_walk" /\ work.i + 8 <= Len(data)
    /\ Slice(data, work.i + 4, work.i + 8) = IEND
    /\ PngCommit(png_step(data, PngCur))

\* Lines 49-59: the walk moves over the chunk at i.
PngChunk ==
    /\ pc = "png_walk" /\ work.i + 8 <= Len(data)
    /\ Slice(data, work.i + 4, work.i + 8) # IEND
    /\ PngCommit(png_step(data, PngCur))

\* Lines 34 and 60-62: the walk runs off the buffer.
PngNoIend ==
    /\ pc = "png_walk" /\ work.i + 8 > Len(data)
    /\ PngCommit(png_step(data, PngCur))

PngNext ==
    PngOpen \/ PngFind \/ PngReturn \/ PngIend \/ PngChunk \/ PngNoIend

PngSpec == PngInit /\ [][PngNext]_vars

\* C6: for every input prefix + P + suffix with P a valid PNG, extract_pngs
\* writes a file whose bytes are exactly P.
C6_AsStated ==
    pc = "png_done" => \E w \in 1 .. Len(trail) : trail[w].body = input.png

\* A signature and a chunk header of length 4 before the PNG: the one file
\* written holds the prefix and the PNG, and no file holds the PNG.
C6_Failure ==
    /\ pc = "png_done"
    /\ input.pre = PNG_SIG \o <<0, 0, 0, 4, 120, 120, 120, 120>>
    /\ input.suf = <<>>
    /\ Len(trail) = 1
    /\ trail[1].body = input.pre \o input.png

----------------------------------------------------------------------------
(* The heuristic scavengers of binary_extractor.py.                        *)

\* TAB or 0x20..0x7e: the class [\x09\x20-\x7e] and is_printable.
Printable(b) == b = 9 \/ (b >= 32 /\ b <= 126)

\* The elements of a list without the repeats, first occurrences in order.
Dedupe(ss) ==
    LET firsts == SelectSeq([k \in 1 .. Len(ss) |-> k],
                            LAMBDA k : \A j \in 1 .. k - 1 : ss[j] # ss[k])
    IN  [n \in 1 .. Len(firsts) |-> ss[firsts[n]]]

\* extract_ascii_strings(data, min_len): the maximal runs of printable
\* bytes that are at least min_len long, decoded.
extract_ascii_strings(d, min_len) ==
    LET pr(k) == k >= 1 /\ k <= Len(d) /\ Printable(d[k])
        all == [k \in 1 .. Len(d) |-> k]
        starts == SelectSeq(all, LAMBDA k : pr(k) /\ ~pr(k - 1))
        ends == SelectSeq(all, LAMBDA k : pr(k) /\ ~pr(k + 1))
        found == SelectSeq([n \in 1 .. Len(starts) |-> SubSeq(d, starts[n], ends[n])],
                           LAMBDA b : Len(b) >= min_len)
    IN  [n \in 1 .. Len(found) |-> Utf8Ignore(found[n])]

\* LUA_KEYWORDS: function, local, end, return, print, --.
LUA_KEYWORDS ==
    {<<102, 117, 110, 99, 116, 105, 111, 110>>, <<108, 111, 99, 97, 108>>,
     <<101, 110, 100>>, <<114, 101, 116, 117, 114, 110>>,
     <<112, 114, 105, 110, 116>>, <<45, 45>>}

\* find_lua_candidates(strings)
find_lua_candidates(strings) ==
    SelectSeq(strings, LAMBDA s :
        (\E kw \in LUA_KEYWORDS : Contains(s, kw)) /\ Len(s) > 30)

\* <ProtectedString name="Source"> and </ProtectedString>
PS_START ==
    <<60, 80, 114, 111, 116, 101, 99, 116, 101, 100, 83, 116, 114, 105, 110, 103, 32, 110, 97, 109, 101, 61, 34, 83, 111, 117, 114, 99, 101, 34, 62>>

PS_END ==
    <<60, 47, 80, 114, 111, 116, 101, 99, 116, 101, 100, 83, 116, 114, 105, 110, 103, 62>>

\* The loop of extract_protected_strings_from_bytes from idx.
RECURSIVE ProtectedRun(_, _, _)
ProtectedRun(d, idx, out) ==
    LET hit == Find(d, PS_START, idx)
        si == hit + Len(PS_START)
        ei == Find(d, PS_END, si)
        s == StripNul(Utf8Ignore(Slice(d, si, ei)))
    IN  IF hit = -1 THEN out
        ELSE IF ei = -1 THEN out
        ELSE ProtectedRun(d, ei + Len(PS_END),
                          IF Len(s) > 10 THEN Append(out, s) ELSE out)

extract_protected_strings_from_bytes(d) == ProtectedRun(d, 0, <<>>)

\* function, end
KW_FUNCTION == <<102, 117, 110, 99, 116, 105, 111, 110>>

KW_END == <<101, 110, 100>>

\* The scan of lines 172-192 over text from j: the candidate it appends,
\* <<>> when it appends none.
RECURSIVE BalanceScan(_, _, _, _, _)
BalanceScan(text, rel, j, func_count, end_count) ==
    LET fpos == Find(text, KW_FUNCTION, j)
        epos == Find(text, KW_END, j)
        isFunc == epos = -1 \/ (fpos # -1 /\ fpos < epos)
        last_pos == IF isFunc THEN fpos ELSE epos
        fc == IF isFunc THEN func_count + 1 ELSE func_count
        ec == IF isFunc THEN end_count ELSE end_count + 1
        candidate == StripNul(Slice(text, rel, last_pos + 3))
    IN  IF j >= Len(text) THEN <<>>
        ELSE IF fpos = -1 /\ epos = -1 THEN <<>>
        ELSE IF fc > 0 /\ ec >= fc
        THEN (IF Len(candidate) > 30 THEN <<candidate>> ELSE <<>>)
        ELSE BalanceScan(text, rel, last_pos + (IF isFunc THEN 8 ELSE 3), fc, ec)

\* The loop of extract_lua_blocks_by_keywords from idx.
RECURSIVE BlocksRun(_, _, _, _)
BlocksRun(d, max_expand, idx, out) ==
    LET si == Find(d, KW_FUNCTION, idx)
        left == Max(0, si - 2000)
        right == Min(Len(d), si + max_expand)
        text == Utf8Ignore(Slice(d, left, right))
        rel == Find(text, KW_FUNCTION, 0)
    IN  IF si = -1 THEN out
        ELSE IF rel = -1 THEN BlocksRun(d, max_expand, si + Len(KW_FUNCTION), out)
        ELSE BlocksRun(d, max_expand, si + Len(KW_FUNCTION),
                       out \o BalanceScan(text, rel, rel, 0, 0))

extract_lua_blocks_by_keywords(d) == Dedupe(BlocksRun(d, 20000, 0, <<>>))

\* The loop of extract_merged_printable_blocks from i: a run starts at a
\* printable byte and ends before the first byte that makes more than
\* max_gap non-printable bytes in a row, or at the end of the buffer.
RECURSIVE MergedRun(_, _, _, _, _)
MergedRun(d, min_len, max_gap, i, out) ==
    LET n == Len(d)
        np(k) == ~Printable(d[k + 1])
        breaks == {j \in i + 1 + max_gap .. n - 1 :
                      \A k \in j - max_gap .. j : np(k)}
        j == IF breaks = {} THEN n
             ELSE CHOOSE b \in breaks : \A c \in breaks : b <= c
        s == StripNul(Utf8Ignore(Slice(d, i, j)))
    IN  IF i >= n THEN out
        ELSE IF np(i) THEN MergedRun(d, min_len, max_gap, i + 1, out)
        ELSE MergedRun(d, min_len, max_gap, j,
                       IF Len(s) >= min_len THEN Append(out, s) ELSE out)

extract_merged_printable_blocks(d, min_len, max_gap) ==
    Dedupe(MergedRun(d, min_len, max_gap, 0, <<>>))

----------------------------------------------------------------------------
(* Asset references, and the pieces of the orchestrator.                   *)

\* c.isprintable() at the code points below 256.
IsPrintable(c) ==
    (c >= 32 /\ c <= 126) \/ (c >= 161 /\ c <= 255 /\ c # 173)

\* find_asset_urls(strings)
find_asset_urls(strings) ==
    LET RBXASSET == <<114, 98, 120, 97, 115, 115, 101, 116>>
        HTTP == <<104, 116, 116, 112>>
    IN  Dedupe(SelectSeq(strings, LAMBDA s :
            Contains(s, RBXASSET) \/ Contains(s, HTTP) \/ Contains(Lower(s), HTTP)))

\* _clean_asset_url(text); the words are rbxasset, http, www, .com, asset,
\* sound, image.
clean_asset_url(text) ==
    LET words == {<<114, 98, 120, 97, 115, 115, 101, 116>>,
                  <<104, 116, 116, 112>>, <<119, 119, 119>>,
                  <<46, 99, 111, 109>>, <<97, 115, 115, 101, 116>>,
                  <<115, 111, 117, 110, 100>>, <<105, 109, 97, 103, 101>>}
        t == SelectSeq(text, IsPrintable)
    IN  IF \E x \in words : Contains(Lower(t), x) THEN Some(Strip(t)) ELSE None

\* The loop of lines 341-359 over the whole list, from candidate i on.
RECURSIVE CanonRun(_, _, _)
CanonRun(combined, i, norm_map) ==
    IF i >= Len(combined) THEN norm_map
    ELSE CanonRun(combined, i + 1, canon_turn(norm_map, combined[i + 1]).map)

\* for i, x in enumerate(...): path = _safe_name(base, dir, ext); write.
\* entries are [base, body], already numbered; out is [files, log].
RECURSIVE WriteEach(_, _, _, _, _)
WriteEach(entries, k, dir, ext, out) ==
    IF k > Len(entries) THEN out
    ELSE LET path == safe_name(entries[k].base, dir, ext, out.files)
         IN  WriteEach(entries, k + 1, dir, ext,
                 [files |-> out.files \cup {path},
                  log |-> Append(out.log, [path |-> path, body |-> entries[k].body,
                                           existed |-> path \in out.files])])

\* A list numbered as enumerate does: [i, x] with i from 0.
Enumerate(list) == [k \in 1 .. Len(list) |-> [i |-> k - 1, x |-> list[k]]]

\* The paths of a log, in order.
Paths(log) == [k \in 1 .. Len(log) |-> log[k].path]

\* extract_from_binary, lines 448-468, on the outcome of parse: the string
\* properties that look like script sources, as [name, src], in the order
\* of the instance map and of each property dict; none when parse raised.
parser_candidates(run) ==
    LET SOURCE == <<115, 111, 117, 114, 99, 101>>
        SCRIPT == <<115, 99, 114, 105, 112, 116>>
        PROTECTED == <<60, 112, 114, 111, 116, 101, 99, 116, 101, 100>>
        words == {<<102, 117, 110, 99, 116, 105, 111, 110>>,
                  <<108, 111, 99, 97, 108>>, <<101, 110, 100>>,
                  <<114, 101, 116, 117, 114, 110>>, <<45, 45>>}
        named(n) == \/ Contains(Lower(n), SOURCE) \/ Contains(Lower(n), SCRIPT)
                    \/ Contains(Lower(n), PROTECTED)
        looks(v) == (\E k \in words : Contains(Lower(v), k)) /\ Len(v) > 30
        picked(props) ==
            SelectSeq(props, LAMBDA p :
                p.value.t = "str" /\ (named(p.name) \/ looks(p.value.v)))
        of(props) == [k \in 1 .. Len(props) |->
                         [name |-> props[k].name, src |-> props[k].value.v]]
        insts == run.parser.instances
    IN  IF run.pc # "returned" THEN <<>>
        ELSE Concat([j \in 1 .. Len(insts) |->
                        of(picked(run.parser.heap[insts[j].obj].properties))])

\* An empty result dict (lines 300-308 and 471-479).
NoResult ==
    [scripts |-> <<>>, images |-> <<>>, sounds |-> <<>>, models |-> <<>>,
     assets |-> <<>>, sound_refs |-> <<>>, image_refs |-> <<>>]

----------------------------------------------------------------------------
(* extract_from_binary(input_file, out_dir, options), statement group by   *)
(* statement group, with extract_from_bytes inlined where it is called.    *)
(* input is the content of the input file, options the four switches,      *)
(* work the locals (parser_candidates, the exception parse raised, the     *)
(* result dict of extract_from_bytes), result the result dict, trail the   *)
(* log of the writes.                                                      *)

\* The payload and the envelope of the protected-string scenario.
Payload ==
    <<108, 111, 99, 97, 108, 32, 120, 32, 61, 32, 49, 32, 102, 117, 110, 99,
      116, 105, 111, 110, 32, 102, 40, 41, 32, 114, 101, 116, 117, 114, 110, 32, 120, 32, 101, 110, 100>>

Envelope == PS_START \o Payload \o PS_END

\* A place file with one instance whose property Source is "print('hi!')".
SourceFile ==
    FileBytes([header |-> Header(<<>>, 0),
               chunks |-> << InstToken(0, <<83>>, <<1>>)
                   \o PropToken(0, <<83, 111, 117, 114, 99, 101>>, VT_STRING,
                                EncStr(<<112, 114, 105, 110, 116, 40, 39,
                                  104, 105, 33, 39, 41>>))
                   \o <<TOKEN_END>> >>])

\* A PNG and a JPEG, a model tag, a sound id, and two URLs, separated by
\* zero bytes:  <Model name="m">, SoundId rbxassetid://7,
\* http://cdn.com/x, http://i.com/texture.
AssetFile ==
    ValidPng \o <<0>> \o JPEG_SOI \o <<1>> \o JPEG_EOI \o <<0>>
    \o <<60, 77, 111, 100, 101, 108, 32, 110, 97, 109, 101, 61, 34, 109, 34,
      62>>
    \o <<0>>
    \o <<83, 111, 117, 110, 100, 73, 100, 32, 114, 98, 120, 97, 115, 115,
      101, 116, 105, 100, 58, 47, 47, 55>>
    \o <<0>>
    \o <<104, 116, 116, 112, 58, 47, 47, 99, 100, 110, 46, 99, 111, 109, 47,
      120>>
    \o <<0>>
    \o <<104, 116, 116, 112, 58, 47, 47, 105, 46, 99, 111, 109, 47, 116,
      101, 120, 116, 117, 114, 101>>

\* A place file with one instance whose property Source is the 31 bytes
\*   local function f() return 1 end
\* which the structured parser and the scavengers both find.
BothFile ==
    FileBytes([header |-> Header(<<>>, 0),
               chunks |-> << InstToken(0, <<83>>, <<1>>)
                   \o PropToken(0, <<83, 111, 117, 114, 99, 101>>, VT_STRING,
                                EncStr(<<108, 111, 99, 97, 108, 32, 102, 117, 110, 99, 116, 105, 111, 110, 32, 102, 40, 41, 32, 114, 101, 116, 117, 114, 110, 32, 49, 32, 101, 110, 100>>))
                   \o <<TOKEN_END>> >>])

\* Three references, separated by zero bytes: www.example.com/image,
\* RBXASSETID://12345, http://ok.com/audio.
RefsFile ==
    <<119, 119, 119, 46, 101, 120, 97, 109, 112, 108, 101, 46, 99, 111, 109, 47, 105, 109, 97, 103, 101>>
    \o <<0>>
    \o <<82, 66, 88, 65, 83, 83, 69, 84, 73, 68, 58, 47, 47, 49, 50, 51, 52, 53>>
    \o <<0>>
    \o <<104, 116, 116, 112, 58, 47, 47, 111, 107, 46, 99, 111, 109, 47, 97, 117, 100, 105, 111>>

ExtractFiles == {<<>>, Envelope, SourceFile, AssetFile, BothFile, RefsFile}

Categories == {"scripts", "models", "sounds", "images"}

ExtractInit ==
    /\ input \in ExtractFiles
    /\ options \in [Categories -> BOOLEAN]
    /\ pc = "x_open"
    /\ data = Unused /\ parser = Unused /\ work = Unused /\ result = Unused
    /\ fs = {} /\ trail = <<>>

\* Lines 440-445: the output base directory, then the file is read.
XOpen ==
    /\ pc = "x_open"
    /\ fs' = fs \cup {Dir("extracted")}
    /\ data' = input
    /\ pc' = "x_parse"
    /\ UNCHANGED <<input, parser, trail, options, work, result>>

\* Lines 447-465: parse returned; the candidates are collected.
XParsed ==
    /\ pc = "x_parse"
    /\ \E run \in {parse(data)} :
           /\ run.pc = "returned"
           /\ parser' = run.parser
           /\ work' = [parser_candidates |-> parser_candidates(run),
                       exc |-> "none", heur |-> NoResult]
    /\ pc' = "x_scripts"
    /\ UNCHANGED <<input, data, trail, fs, options, result>>

\* Lines 447-451 and 466-468: parse raised; the exception is dropped.
XParseFailed ==
    /\ pc = "x_parse"
    /\ \E run \in {parse(data)} :
           /\ run.pc = "raised"
           /\ parser' = run.parser
           /\ work' = [parser_candidates |-> parser_candidates(run),
                       exc |-> run.parser.exc, heur |-> NoResult]
    /\ pc' = "x_scripts"
    /\ UNCHANGED <<input, data, trail, fs, options, result>>

\* Lines 470-492: the result dict, the Scripts directory, and one file per
\* parser candidate the cleaning accepts.
XParserScripts ==
    /\ pc = "x_scripts"
    /\ LET SCRIPT == <<115, 99, 114, 105, 112, 116>>
           cands == Enumerate(work.parser_candidates)
           kept == SelectSeq(cands, LAMBDA c : ~clean_lua_script(c.x.src).none)
           entries == [k \in 1 .. Len(kept) |->
               [base |-> (IF kept[k].x.name = <<>> THEN SCRIPT ELSE kept[k].x.name)
                             \o <<95>> \o Dec(kept[k].i),
                body |-> clean_lua_script(kept[k].x.src).str]]
           out == WriteEach(entries, 1, "Scripts", EXT_LUA,
                            [files |-> fs \cup {Dir("Scripts")},
                              log |-> <<>>])
       IN  /\ fs' = out.files
           /\ trail' = trail \o out.log
           /\ result' = [NoResult EXCEPT !.scripts = Paths(out.log)]
    /\ pc' = "h_images"
    /\ UNCHANGED <<input, data, parser, options, work>>

\* extract_from_bytes, lines 300-316: the base directory again, then the
\* PNG and JPEG files, whatever the options are.
HImages ==
    /\ pc = "h_images"
    /\ \E png \in {extract_pngs(data, fs \cup {Dir("extracted")})} :
       \E jpg \in {extract_jpegs(data, png.files)} :
           /\ fs' = jpg.files
           /\ trail' = trail \o png.log \o jpg.log
           /\ work' = [work EXCEPT !.heur.images = Paths(png.log) \o Paths(jpg.log)]
    /\ pc' = "h_scripts"
    /\ UNCHANGED <<input, data, parser, options, result>>

\* Lines 319-381 with options['scripts'] set: the four scavengers, the
\* canonicalizer, the Scripts directory, the sorted writes.
HScripts ==
    /\ pc = "h_scripts" /\ options["scripts"]
    /\ LET strings == extract_ascii_strings(data, 8)
           combined == extract_protected_strings_from_bytes(data)
                       \o extract_lua_blocks_by_keywords(data)
                       \o extract_merged_printable_blocks(data, 120, 48)
                       \o find_lua_candidates(strings)
           out == write_scripts(sorted_items(CanonRun(combined, 0, <<>>)), 0,
                      [files |-> fs \cup {Dir("Scripts")}, log |-> <<>>])
       IN  /\ fs' = out.files
           /\ trail' = trail \o [k \in 1 .. Len(out.log) |->
                  [path |-> out.log[k].path, body |-> out.log[k].body,
                   existed |-> out.log[k].existed]]
           /\ work' = [work EXCEPT !.heur.scripts = Paths(out.log)]
    /\ pc' = "h_assets"
    /\ UNCHANGED <<input, data, parser, options, result>>

\* Line 322 with options.get('scripts', False) false.
HScriptsOff ==
    /\ pc = "h_scripts" /\ ~options["scripts"]
    /\ pc' = "h_assets"
    /\ UNCHANGED <<input, data, parser, trail, fs, options, work, result>>

\* Lines 383-400: the asset references, whatever the options are; a sound
\* or image reference goes to the result only, any other to a file.
HAssets ==
    /\ pc = "h_assets"
    /\ LET SOUND == <<115, 111, 117, 110, 100>>
           AUDIO == <<97, 117, 100, 105, 111>>
           IMAGE == <<105, 109, 97, 103, 101>>
           TEXTURE == <<116, 101, 120, 116, 117, 114, 101>>
           assets == find_asset_urls(extract_ascii_strings(data, 8))
           refs == [k \in 1 .. Len(assets) |->
                       [i |-> k - 1, ref |-> clean_asset_url(assets[k])]]
           valid == SelectSeq(refs, LAMBDA r : ~r.ref.none /\ r.ref.str # <<>>)
           is_sound(r) == \/ Contains(Lower(r.ref.str), SOUND)
                          \/ Contains(Lower(r.ref.str), AUDIO)
           is_image(r) == \/ Contains(Lower(r.ref.str), IMAGE)
                          \/ Contains(Lower(r.ref.str), TEXTURE)
           texts(rs) == [k \in 1 .. Len(rs) |-> rs[k].ref.str]
           others == SelectSeq(valid, LAMBDA r : ~is_sound(r) /\ ~is_image(r))
           entries == [k \in 1 .. Len(others) |->
                          [base |-> <<97, 115, 115, 101, 116, 114, 101, 102, 95>> \o Dec(others[k].i),
                           body |-> others[k].ref.str]]
           out == WriteEach(entries, 1, "References", EXT_TXT,
                            [files |-> fs \cup {Dir("References")}, log |-> <<>>])
       IN  IF assets = <<>> THEN UNCHANGED <<fs, trail, work>>
           ELSE /\ fs' = out.files
                /\ trail' = trail \o out.log
                /\ work' = [work EXCEPT
                       !.heur.assets = Paths(out.log),
                       !.heur.sound_refs = texts(SelectSeq(valid, is_sound)),
                       !.heur.image_refs = texts(SelectSeq(valid,
                           LAMBDA r : ~is_sound(r) /\ is_image(r)))]
    /\ pc' = "h_models"
    /\ UNCHANGED <<input, data, parser, options, result>>

\* One gated category of strings (lines 403-412 and 415-424): when the
\* option is set and the list is not empty, the directory and one file per
\* string.
WriteCategory(cat, dir, stem, ext, list, next) ==
    /\ LET entries == [k \in 1 .. Len(list) |->
                          [base |-> stem \o Dec(k - 1), body |-> list[k]]]
           out == WriteEach(entries, 1, dir, ext,
                            [files |-> fs \cup {Dir(dir)}, log |-> <<>>])
       IN  IF ~options[cat] \/ list = <<>> THEN UNCHANGED <<fs, trail, work>>
           ELSE /\ fs' = out.files
                /\ trail' = trail \o out.log
                /\ work' = [work EXCEPT !.heur[cat] = Paths(out.log)]
    /\ pc' = next
    /\ UNCHANGED <<input, data, parser, options, result>>

\* Lines 402-412: the strings with <Model or <Part.
HModels ==
    /\ pc = "h_models"
    /\ WriteCategory("models", "Models", <<109, 111, 100, 101, 108, 95>>, <<46, 109, 111, 100, 101, 108>>,
           SelectSeq(extract_ascii_strings(data, 8), LAMBDA s :
               Contains(s, <<60, 77, 111, 100, 101, 108>>) \/ Contains(s, <<60, 80, 97, 114, 116>>)),
           "h_sounds")

\* Lines 414-424: the strings with SoundId, sound or wav.
HSounds ==
    /\ pc = "h_sounds"
    /\ WriteCategory("sounds", "Sounds", <<115, 111, 117, 110, 100, 95>>, EXT_TXT,
           SelectSeq(extract_ascii_strings(data, 8), LAMBDA s :
               \/ Contains(s, <<83, 111, 117, 110, 100, 73, 100>>)
               \/ Contains(Lower(s), <<115, 111, 117, 110, 100>>)
               \/ Contains(Lower(s), <<119, 97, 118>>)),
           "x_merge")

\* A merge that puts the scavenger's script paths in front.
merge_scripts_heur_first(own, heur) ==
    SelectSeq(heur, LAMBDA p : \A j \in 1 .. Len(own) : own[j] # p) \o own

\* Lines 502-507: the scavenger's script paths that are not among the
\* structured ones are appended to them.
merge_scripts(own, heur) ==
    own \o SelectSeq(heur, LAMBDA p : \A j \in 1 .. Len(own) : own[j] # p)

\* extract_from_binary, lines 497-511: the heuristic result is merged into
\* the result, the script paths without those already there.
XMerge ==
    /\ pc = "x_merge"
    /\ result' = [k \in DOMAIN result |->
           IF k = "scripts" THEN merge_scripts(result[k], work.heur[k])
           ELSE result[k] \o work.heur[k]]
    /\ pc' = "x_returned"
    /\ UNCHANGED <<input, data, parser, trail, fs, options, work>>

ExtractNext ==
    \/ XOpen \/ XParsed \/ XParseFailed \/ XParserScripts
    \/ HImages \/ HScripts \/ HScriptsOff \/ HAssets \/ HModels \/ HSounds
    \/ XMerge

ExtractSpec == ExtractInit /\ [][ExtractNext]_vars

----------------------------------------------------------------------------
(* Properties of the orchestrator.                                         *)

\* The directory of each category.
DirOf(cat) ==
    IF cat = "scripts" THEN "Scripts" ELSE IF cat = "models" THEN "Models"
    ELSE IF cat = "sounds" THEN "Sounds" ELSE "Images"

\* The writes made into the directory dir.
WritesIn(dir) == {w \in 1 .. Len(trail) : trail[w].path.dir = dir}

\* C7: for each category of scripts, models, sounds and images, when its
\* option is false, extract_from_binary writes no file of that category,
\* from the structured parser or from the scavenger, and the result list of
\* that category is empty.
C7_AsStated ==
    pc = "x_returned" =>
        \A cat \in Categories :
            ~options[cat] => WritesIn(DirOf(cat)) = {} /\ result[cat] = <<>>

\* Every option false on the file with a PNG and a JPEG: both are written
\* to Images and listed in the result.
C7_Failure ==
    /\ pc = "x_returned" /\ input = AssetFile
    /\ \A cat \in Categories : ~options[cat]
    /\ Cardinality(WritesIn("Images")) = 2
    /\ Len(result["images"]) = 2

\* C8: for an empty input file the parser fails with the bad-magic error,
\* extract_from_binary surfaces that error to its caller instead of
\* returning, and no output directory has been created by then.
C8_AsStated ==
    (input = <<>> /\ pc \notin {"x_open", "x_parse"}) =>
        /\ work.exc = "ValueError"
        /\ pc # "x_returned"
        /\ fs = {}

\* The empty file: parse raised ValueError, extract_from_binary returned an
\* empty result, and the base, Scripts and Images directories exist.
C8_Failure ==
    /\ input = <<>> /\ pc = "x_returned"
    /\ work.exc = "ValueError"
    /\ result = NoResult /\ trail = <<>>
    /\ fs = {Dir("extracted"), Dir("Scripts"), Dir("Images")}

\* C9: for a buffer that is exactly one protected-string envelope the
\* heuristic path with scripts enabled emits exactly one script, whose body
\* is the payload between the tags.
C9_AsStated ==
    (pc = "x_returned" /\ input = Envelope /\ options["scripts"]) =>
        /\ Len(work.heur.scripts) = 1
        /\ Cardinality(WritesIn("Scripts")) = 1
        /\ \A w \in WritesIn("Scripts") : trail[w].body = Payload

\* The envelope with scripts enabled: two scripts are written, the whole
\* envelope text first and the payload second.
C9_Failure ==
    /\ pc = "x_returned" /\ input = Envelope /\ options["scripts"]
    /\ Len(work.heur.scripts) = 2 /\ Len(trail) = 2
    /\ trail[1].body = Envelope
    /\ trail[1].path = [dir |-> "Scripts",
            name |-> <<115, 99, 114, 105, 112, 116, 95, 48, 46, 108, 117, 97>>]
    /\ trail[2].body = Payload
    /\ trail[2].path = [dir |-> "Scripts",
            name |-> <<115, 99, 114, 105, 112, 116, 95, 49, 46, 108, 117, 97>>]

----------------------------------------------------------------------------
(* Properties of the chunk loop and of the reader.                         *)

\* The chunk header at the file offset pos declares a length that is not
\* zero and exceeds the bytes that remain after the header.
BadLengthAt(pos) ==
    /\ pos >= 0 /\ pos + 8 <= Len(data)
    /\ U32Of(Slice(data, pos, pos + 4)) # 0
    /\ U32Of(Slice(data, pos, pos + 4)) > Len(data) - (pos + 8)

\* C11: when a chunk header declares a length greater than the bytes that
\* remain, the chunk is skipped (no payload, no read past the end, the
\* instance map unchanged) and the chunk loop continues rather than ending
\* the parse.
C11_AsStated ==
    [][(pc = "read_chunk" /\ BadLengthAt(parser.reader.pos)) =>
           /\ pc' = "read_chunk"
           /\ trail' = trail
           /\ parser'.instances = parser.instances
           /\ parser'.reader.pos <= Len(data)]_vars

\* A file cut inside the body of its second chunk: the header of that chunk
\* declares more than is left, parse has returned with the instance of the
\* first chunk, and the bytes after the header were never looked at.
C11_Failure ==
    /\ input.kind = "prefix" /\ pc = "returned"
    /\ BadLengthAt(parser.reader.pos - 8)
    /\ parser.reader.pos < Len(data)
    /\ Len(trail) = 1 /\ Len(parser.instances) = 1

----------------------------------------------------------------------------
(* The reader on its own: a BinaryReader over a buffer, and a caller that  *)
(* applies read operations to it one after another until one raises.      *)

MaxDigits == 10
MaxCount == 3
MaxWidth == 2
MaxReads == 2

\* A digit sequence of len groups: fill below, top as the last group.
Filled(len, fill, top) == [k \in 1 .. len |-> IF k = len THEN top ELSE fill]

\* Numbers as base-128 digit sequences, from 0 up to 2^(7 * MaxDigits) - 1.
VarintValues ==
    {<<>>} \cup {Filled(len, fill, top) :
                    len \in 1 .. MaxDigits, fill \in {0, 127}, top \in {1, 127}}

SmallNats == {0, 1, 127, 128, 300, 16383, 16384, 2097151, 2097152, 268435455}

\* The little-endian base-128 encoding of a digit sequence: the
\* continuation bit on every group but the last.
EncDigits(ds) ==
    IF ds = <<>> THEN <<0>>
    ELSE [k \in 1 .. Len(ds) |-> IF k < Len(ds) THEN 128 + ds[k] ELSE ds[k]]

\* The number is below 2^64.
Below2p64(ds) == Len(ds) <= 9 \/ (Len(ds) = 10 /\ ds[10] <= 1)

\* Byte matrices of count rows and width columns.
Matrices(count, width) ==
    {[i \in 1 .. count |-> [j \in 1 .. width |-> (i - 1) * width + j]],
     [i \in 1 .. count |-> [j \in 1 .. width |-> 16 * i]],
     [i \in 1 .. count |-> [j \in 1 .. width |-> 200 + j]]}

\* width consecutive columns of count bytes each.
ColumnMajor(M, count, width) ==
    [k \in 1 .. count * width |->
        M[((k - 1) % count) + 1][((k - 1) \div count) + 1]]

\* count consecutive rows of width bytes each.
RowMajor(M, count, width) ==
    [k \in 1 .. count * width |->
        M[((k - 1) \div width) + 1][((k - 1) % width) + 1]]

RawBytes == <<3, 65, 200, 0, 1, 2, 130, 7, 9>>

\* Length-prefixed strings: "e-acute", two broken sequences, a declared
\* length of 3 over 2 bytes, the empty string.
StringBodies ==
    {<<2, 195, 169>>, <<2, 195, 40>>, <<1, 255>>, <<3, 65, 66>>, <<0>>}

\* Continuation bytes without end, then a last group.
Overlong == {Filled(len, cont, 1) : len \in MaxDigits + 1 .. MaxDigits + 2,
                                    cont \in {128, 255}}

Surroundings == {[lead |-> <<>>, tail |-> <<>>], [lead |-> <<9>>, tail |-> <<133, 1>>]}

ReaderInput(kind, sur, body, count, width, arg) ==
    [kind |-> kind, lead |-> sur.lead, body |-> body, tail |-> sur.tail,
     count |-> count, width |-> width, arg |-> arg]

ReaderInputs ==
    UNION {
        {ReaderInput("varint", sur, EncDigits(ds), 0, 0, ds) :
            ds \in VarintValues, sur \in Surroundings},
        {ReaderInput("nat", sur, EncVarint(n), 0, 0, <<n>>) :
            n \in SmallNats, sur \in Surroundings},
        {ReaderInput("overlong", sur, b, 0, 0, <<>>) :
            b \in Overlong, sur \in Surroundings},
        UNION {{ReaderInput("matrix", sur, ColumnMajor(M, c, w), c, w, M) :
                   M \in Matrices(c, w), sur \in Surroundings} :
                      c \in 0 .. MaxCount, w \in 0 .. MaxWidth},
        {ReaderInput("string", sur, b, 0, 0, <<>>) :
            b \in StringBodies, sur \in Surroundings},
        {ReaderInput("raw", [lead |-> <<>>, tail |-> <<>>],
                     SubSeq(RawBytes, 1, k), 0, 0, <<>>) :
            k \in 0 .. Len(RawBytes)}}

ReaderInit ==
    /\ input \in ReaderInputs
    /\ data = input.lead \o input.body \o input.tail
    /\ parser = NewReader(data)
    /\ pc = "reader"
    /\ trail = <<>>
    /\ fs = {} /\ options = Unused /\ work = Unused /\ result = Unused

\* One read: the reader's position moves to where the operation left it,
\* and an exception ends the caller.
Reads(op, count, width, res) ==
    /\ parser' = [parser EXCEPT !.pos = res.pos]
    /\ trail' = Append(trail, [op |-> op, at |-> parser.pos, count |-> count,
                               width |-> width, res |-> res])
    /\ pc' = IF res.err = "none" THEN "reader" ELSE "raised"
    /\ UNCHANGED <<input, data, fs, options, work, result>>

CanRead == pc = "reader" /\ Len(trail) < MaxReads

ReadByte ==
    CanRead /\ Reads("read_byte", 0, 0, read_byte(data, parser.pos))

ReadU32 ==
    CanRead /\ Reads("read_u32", 0, 0, read_u32(data, parser.pos))

ReadI32 ==
    CanRead /\ Reads("read_i32", 0, 0, read_i32(data, parser.pos))

ReadF32 ==
    CanRead /\ Reads("read_f32", 0, 0, read_f32(data, parser.pos))

ReadF64 ==
    CanRead /\ Reads("read_f64", 0, 0, read_f64(data, parser.pos))

ReadBool ==
    CanRead /\ Reads("read_bool", 0, 0, read_bool(data, parser.pos))

ReadVarint ==
    CanRead /\ Reads("read_varint", 0, 0, read_varint(data, parser.pos))

ReadString ==
    CanRead /\ Reads("read_string", 0, 0, read_string(data, parser.pos))

ReadInterleaved ==
    /\ CanRead
    /\ \E count \in 0 .. MaxCount, width \in 0 .. MaxWidth :
          Reads("read_interleaved", count, width,
                read_interleaved(data, parser.pos, count, width))

ReaderNext ==
    \/ ReadByte \/ ReadU32 \/ ReadI32 \/ ReadF32 \/ ReadF64 \/ ReadBool
    \/ ReadVarint \/ ReadString \/ ReadInterleaved

ReaderSpec == ReaderInit /\ [][ReaderNext]_vars

\* The reads done so far, by their place in the log.
ReadsDone == 1 .. Len(trail)

----------------------------------------------------------------------------
(* Properties of the reader.                                               *)

\* C13: encoding errors are never surfaced: read_string on bytes that are
\* not valid UTF-8 returns a string, so no token handler fails with a
\* decoding error and no chunk is ended by one.
C13_AsStated ==
    \A ij \in Dispatched : TokenAt(ij).err # "UnicodeDecodeError"

\* FileA with the one-byte value of its String property turned into FF:
\* the PROP token failed on the decode, its chunk ended there with the PRNT
\* token behind it unread, and no instance has the property or a child.
C13_Failure ==
    /\ input = [kind |-> "corrupt", file |-> 1, k |-> 0, chunk |-> 3,
                at |-> 6, bytes |-> <<255>>]
    /\ pc = "returned" /\ Len(trail) = 3
    /\ Len(trail[3].toks) = 1
    /\ trail[3].toks[1].tok = TOKEN_PROP
    /\ trail[3].toks[1].err = "UnicodeDecodeError"
    /\ trail[3].closed = "error"
    /\ Len(trail[3].payload) > 7
    /\ \A o \in 1 .. Len(parser.heap) :
          parser.heap[o].properties = <<>> /\ parser.heap[o].children = <<>>

\* The bytes a fixed-width read needs.
WidthOf(op) ==
    CASE op \in {"read_byte", "read_bool"} -> 1
      [] op \in {"read_u32", "read_i32", "read_f32"} -> 4
      [] op = "read_f64" -> 8

\* A varint that starts at offset at has its last group inside the buffer.
VarintEnds(at) == \E k \in at + 1 .. Len(data) : data[k] < 128

\* The length a string at offset at declares, once its prefix was read.
Declared(at) == read_varint(data, at)

\* Fewer bytes remain at the read e than the operation needs.
ShortRead(e) ==
    CASE e.op = "read_varint" -> ~VarintEnds(e.at)
      [] e.op = "read_string" ->
            \/ ~VarintEnds(e.at)
            \/ VarNat(Declared(e.at).val) > Len(data) - Declared(e.at).pos
      [] e.op = "read_interleaved" ->
            e.count * e.width > Max(0, Len(data) - e.at)
      [] OTHER -> WidthOf(e.op) > Len(data) - e.at

\* C12: a read operation that finds fewer bytes than it needs fails; none
\* returns a value built from fewer bytes than required.
C12_AsStated ==
    \A k \in ReadsDone : ShortRead(trail[k]) => trail[k].res.err # "none"

\* read_string over 03 41 42: three bytes declared, two present, and the
\* two are returned as the string, the position left past the end.
C12_Failure ==
    /\ input.kind = "string" /\ input.body = <<3, 65, 66>> /\ input.tail = <<>>
    /\ \E k \in ReadsDone :
          /\ trail[k].op = "read_string" /\ trail[k].at = Len(input.lead)
          /\ trail[k].res.err = "none" /\ trail[k].res.val = <<65, 66>>
          /\ trail[k].res.pos > Len(data)

\* read_varint at the start of the encoded body of the input.
VarintRead(e) == e.op = "read_varint" /\ e.at = Len(input.lead)

\* C14: for every n with 0 <= n < 2^64, read_varint applied to the
\* little-endian base-128 continuation-bit encoding of n returns n and
\* advances the reader by exactly the number of encoded bytes.
C14_VarintRoundTrip ==
    \A k \in ReadsDone :
        VarintRead(trail[k]) =>
            /\ (input.kind = "varint" /\ Below2p64(input.arg)) =>
                   /\ trail[k].res.err = "none"
                   /\ trail[k].res.val = input.arg
                   /\ trail[k].res.pos = trail[k].at + Len(input.body)
            /\ input.kind = "nat" =>
                   /\ trail[k].res.err = "none"
                   /\ VarNat(trail[k].res.val) = input.arg[1]
                   /\ trail[k].res.pos = trail[k].at + Len(input.body)

\* A number of 2^63 or more, below 2^64, encoded in ten bytes between other
\* bytes, was read back after the byte before it.
C14_Witness ==
    /\ input.kind = "varint" /\ Len(input.arg) = 10 /\ Below2p64(input.arg)
    /\ input.arg[1] = 127
    /\ input.lead # <<>> /\ input.tail # <<>>
    /\ Len(trail) = 2 /\ trail[1].op = "read_byte"
    /\ trail[2].op = "read_varint" /\ trail[2].at = 1
    /\ trail[2].res.val = input.arg /\ trail[2].res.pos = 11

\* C15: read_varint bounds its shift at 64 bits: on bytes whose
\* continuation bits would carry the shift past 64 it fails instead of
\* accumulating, so it never returns a value of 2^64 or more.
C15_AsStated ==
    \A k \in ReadsDone :
        (trail[k].op = "read_varint" /\ trail[k].res.err = "none") =>
            /\ Below2p64(trail[k].res.val)
            /\ trail[k].res.pos - trail[k].at <= 10

\* Eleven or more continuation bytes and a last group of 1: read_varint
\* took them all and returned a number of more than ten groups.
C15_Failure ==
    /\ input.kind = "overlong"
    /\ \E k \in ReadsDone :
          /\ VarintRead(trail[k])
          /\ trail[k].res.err = "none"
          /\ Len(trail[k].res.val) > 10
          /\ trail[k].res.pos - trail[k].at = Len(input.body)
          /\ Len(input.body) > 10

\* read_interleaved with the shape of the input's matrix, at the start of
\* its column-major layout.
MatrixRead(e) ==
    /\ input.kind = "matrix"
    /\ e.op = "read_interleaved" /\ e.at = Len(input.lead)
    /\ e.count = input.count /\ e.width = input.width

\* C16: for every count >= 0, width >= 0 and byte matrix M[count][width], a
\* reader positioned on the column-major layout of M returns from
\* read_interleaved(count, width) the row-major bytes of M and advances by
\* count * width bytes.
C16_InterleavedRoundTrip ==
    \A k \in ReadsDone :
        MatrixRead(trail[k]) =>
            /\ trail[k].res.err = "none"
            /\ trail[k].res.val = RowMajor(input.arg, input.count, input.width)
            /\ trail[k].res.pos = trail[k].at + input.count * input.width

\* A matrix of three rows and two columns with six different bytes, laid
\* out by columns between other bytes, was read back by rows.
C16_Witness ==
    /\ input.kind = "matrix" /\ input.count = 3 /\ input.width = 2
    /\ input.body = <<1, 3, 5, 2, 4, 6>>
    /\ input.lead # <<>> /\ input.tail # <<>>
    /\ Len(trail) = 2 /\ MatrixRead(trail[2])
    /\ trail[2].res.val = <<1, 2, 3, 4, 5, 6>>
    /\ trail[2].res.pos = 7

----------------------------------------------------------------------------
(* Properties of the two script paths of extract_from_binary.              *)

\* The result lists of the scavenger that hold paths of files.
FileLists == {"scripts", "images", "sounds", "models", "assets"}

\* p is a path the scavenger reported.
HeurPath(p) ==
    \E cat \in FileLists : \E k \in 1 .. Len(work.heur[cat]) :
        work.heur[cat][k] = p

\* p is a script file that the scavenger did not report: one written from
\* a candidate of the structured parser.
StructPath(p) == p.dir = "Scripts" /\ p.name # <<>> /\ ~HeurPath(p)

\* C17: in extract_from_binary the structured parse and the writing of
\* every structured script file are complete before the scavenger starts:
\* no scavenger file is written before the last structured script file, and
\* in result['scripts'] every structured path precedes every scavenger path.
C17_PathOrdering ==
    pc \notin {"x_open", "x_parse"} =>
        /\ pc = "x_scripts" => trail = <<>> /\ work.heur = NoResult
        /\ \A a \in 1 .. Len(trail), b \in 1 .. Len(trail) :
              (HeurPath(trail[a].path) /\ StructPath(trail[b].path)) => b < a
        /\ pc = "x_returned" =>
              \A i \in 1 .. Len(result.scripts), j \in 1 .. Len(result.scripts) :
                  (HeurPath(result.scripts[i]) /\ StructPath(result.scripts[j]))
                      => j < i

\* The place file whose Source the parser and the scavengers both find:
\* extract_from_binary has returned, a structured script file was written
\* first, scavenger files after it, and the result lists both.
C17_Witness ==
    /\ input = BothFile /\ pc = "x_returned"
    /\ Len(trail) >= 2
    /\ StructPath(trail[1].path)
    /\ HeurPath(trail[Len(trail)].path) /\ trail[Len(trail)].path.dir = "Scripts"
    /\ Len(result.scripts) = 2
    /\ StructPath(result.scripts[1]) /\ HeurPath(result.scripts[2])

\* C18: within one extraction at most one script file is written per
\* canonical form, whether the candidate came from the structured parser,
\* from the scavenger, or from both.
C18_AsStated ==
    \A a \in WritesIn("Scripts"), b \in WritesIn("Scripts") :
        a < b => collapse_ws(Strip(trail[a].body))
                     # collapse_ws(Strip(trail[b].body))

\* The place file whose Source the parser and the scavengers both find:
\* two script files with the same body, one from each path, both listed in
\* the result.
C18_Failure ==
    /\ input = BothFile /\ pc = "x_returned"
    /\ Len(trail) = 2
    /\ StructPath(trail[1].path) /\ HeurPath(trail[2].path)
    /\ trail[1].path # trail[2].path
    /\ trail[1].body = trail[2].body
    /\ result.scripts = <<trail[1].path, trail[2].path>>

----------------------------------------------------------------------------
(* _read_chunk on its own: one chunk, encoded in one of several ways and   *)
(* damaged or not, read by a parser whose reader stands at its header.     *)

MaxCut == 2

\* Chunk contents: an INST token, a PROP token, three letters.
CodecBodies ==
    {<<1, 0, 1, 65, 0>>, <<2, 0, 1, 78, 1, 1, 120>>, <<120, 121, 122>>}

\* The Adler-32 of x, big-endian.
AdlerBytes(x) ==
    <<AdlerSums(x)[1] \div 256, AdlerSums(x)[1] % 256,
      AdlerSums(x)[2] \div 256, AdlerSums(x)[2] % 256>>

\* The CRC-32 and the length of x, little-endian (x shorter than 256).
GzipTrailer(x) ==
    <<Crc32(x)[2] % 256, Crc32(x)[2] \div 256,
      Crc32(x)[1] % 256, Crc32(x)[1] \div 256, Len(x), 0, 0, 0>>

\* A gzip header whose bytes from offset 2 on are also an empty raw
\* DEFLATE stream (an empty stored block, then an empty final block).
TWO_WAY_HEADER == <<31, 139, 8, 0, 0, 255, 255, 3, 0, 3>>

CodecForms ==
    {"plain", "stored", "zlib", "skip2", "empty_first", "gzip", "gzip_bad",
     "gzip_two_way", "gzip_two_way_bad"}

\* The payload of form f for the content x.
Encoded(f, x) ==
    CASE f = "plain" -> x
      [] f = "stored" -> Stored(x)
      [] f = "zlib" -> <<120, 1>> \o Stored(x) \o AdlerBytes(x)
      [] f = "skip2" -> <<7, 7>> \o Stored(x)
      [] f = "empty_first" -> <<3, 0>> \o Stored(x)
      [] f = "gzip" ->
            <<31, 139, 8, 0, 0, 0, 0, 0, 0, 3>> \o Stored(x) \o GzipTrailer(x)
      [] f = "gzip_bad" ->
            <<31, 139, 8, 0, 0, 0, 0, 0, 0, 3>> \o Stored(x)
                \o GzipTrailer(x \o <<0>>)
      [] f = "gzip_two_way" -> TWO_WAY_HEADER \o Stored(x) \o GzipTrailer(x)
      [] f = "gzip_two_way_bad" ->
            TWO_WAY_HEADER \o Stored(x) \o GzipTrailer(x \o <<0>>)

\* The file: the chunk whole, without its last byte, only the first six
\* bytes of its header, or a terminator.
CodecFile(in) ==
    LET payload == SubSeq(Encoded(in.form, in.x), 1,
                          Len(Encoded(in.form, in.x)) - in.cut)
        chunk == ChunkOf(payload)
    IN  CASE in.file = "whole" -> chunk \o Terminator
          [] in.file = "short" -> SubSeq(chunk, 1, Len(chunk) - 1)
          [] in.file = "header" -> SubSeq(chunk, 1, 6)
          [] in.file = "end" -> Terminator

CodecInputs ==
    [form : CodecForms, x : CodecBodies, cut : 0 .. MaxCut, file : {"whole"}]
    \cup [form : {"plain", "zlib"}, x : CodecBodies, cut : {0},
          file : {"short", "header", "end"}]

CodecInit ==
    /\ input \in CodecInputs
    /\ data = CodecFile(input)
    /\ parser = NewParser(data)
    /\ pc = "codec"
    /\ result = Unused /\ work = Unused /\ options = Unused
    /\ trail = <<>> /\ fs = {}

\* The bytes _read_chunk slices out as `compressed`.
Compressed == Slice(data, 8, 8 + U32Of(Slice(data, 0, 4)))

\* The four decoders on c, in the order gzip, zlib, raw DEFLATE, raw
\* DEFLATE from offset 2; gzip and the last one only where the source
\* calls them.
Attempts(c) ==
    LET failed == [st |-> "error", bp |-> 0, out |-> <<>>]
    IN  <<IF StartsWith(c, <<31, 139>>) THEN GzipInflate(c) ELSE failed,
          ZlibInflate(c),
          RawInflate(c),
          IF Len(c) > 2 THEN RawInflate(Slice(c, 2, Len(c))) ELSE failed>>

\* The first attempt that succeeds, 0 when none does.
FirstOk(att) ==
    IF \A k \in 1 .. 4 : att[k].st # "ok" THEN 0
    ELSE CHOOSE k \in 1 .. 4 :
             att[k].st = "ok" /\ \A j \in 1 .. k - 1 : att[j].st # "ok"

\* _read_chunk has returned rc: the reader stands where it left it.
Chunked(rc) ==
    /\ parser' = [parser EXCEPT !.reader.pos = rc.pos]
    /\ result' = rc
    /\ pc' = IF rc.kind = "chunk" THEN "codec_chunk"
             ELSE IF rc.kind = "none" THEN "codec_none" ELSE "codec_raised"
    /\ UNCHANGED <<input, data, trail, fs, options, work>>

\* _read_chunk returns a payload, decoded by attempt k (0: not decoded).
ChunkBy(k) ==
    \E rc \in {read_chunk(parser)} :
        /\ rc.kind = "chunk"
        /\ FirstOk(Attempts(Compressed)) = k
        /\ Chunked(rc)

ChunkGzip == pc = "codec" /\ ChunkBy(1)

ChunkZlib == pc = "codec" /\ ChunkBy(2)

ChunkRaw == pc = "codec" /\ ChunkBy(3)

ChunkSkip2 == pc = "codec" /\ ChunkBy(4)

ChunkUndecoded == pc = "codec" /\ ChunkBy(0)

\* Lines 193-206: a zero length or a length beyond the end.
ChunkNone ==
    /\ pc = "codec"
    /\ \E rc \in {read_chunk(parser)} : rc.kind = "none" /\ Chunked(rc)

\* Lines 192-198: the header itself is cut.
ChunkRaise ==
    /\ pc = "codec"
    /\ \E rc \in {read_chunk(parser)} : rc.kind = "raise" /\ Chunked(rc)

CodecNext ==
    \/ ChunkGzip \/ ChunkZlib \/ ChunkRaw \/ ChunkSkip2 \/ ChunkUndecoded
    \/ ChunkNone \/ ChunkRaise

CodecSpec == CodecInit /\ [][CodecNext]_vars

\* C19: for a chunk payload, _read_chunk tries gzip (only when the payload
\* starts with 1F 8B), then zlib-wrapped DEFLATE, then raw DEFLATE, then raw
\* DEFLATE from payload offset 2, in that order; it returns the output of
\* the first attempt that succeeds, and the payload bytes unchanged when
\* all attempts fail.
C19_DecodeOrder ==
    pc = "codec_chunk" =>
        \A att \in {Attempts(Compressed)} : \A k \in {FirstOk(att)} :
            /\ result.pos = 8 + Len(Compressed)
            /\ k = 0 => result.payload = Compressed
            /\ k > 0 => result.payload = att[k].out

\* A payload that is an empty raw DEFLATE stream as a whole and a stored
\* block of the content from offset 2: the raw attempt came first and the
\* chunk is empty.
C19_Witness ==
    /\ input.form = "empty_first" /\ input.cut = 0 /\ input.x = <<120, 121, 122>>
    /\ pc = "codec_chunk"
    /\ Attempts(Compressed)[3].st = "ok" /\ Attempts(Compressed)[4].st = "ok"
    /\ Attempts(Compressed)[4].out = input.x
    /\ result.payload = <<>>

----------------------------------------------------------------------------
(* parse on files made for the PROP token: a chunk of INST tokens that     *)
(* registers the instances, then a chunk with one PROP token that carries  *)
(* one value per instance the map holds for its class id.                  *)

\* The INST tokens of the first chunk, each [c, refs]: two classes side by
\* side; class 0 around class 1; referent 1 registered again under class 1;
\* referent 1 registered again under class 0; three instances of one class.
PropLayouts ==
    {<<[c |-> 0, refs |-> <<1, 2>>], [c |-> 1, refs |-> <<3>>]>>,
     <<[c |-> 0, refs |-> <<1>>], [c |-> 1, refs |-> <<2>>],
       [c |-> 0, refs |-> <<3>>]>>,
     <<[c |-> 0, refs |-> <<1, 2>>], [c |-> 1, refs |-> <<1>>]>>,
     <<[c |-> 0, refs |-> <<1, 2>>], [c |-> 0, refs |-> <<1>>]>>,
     <<[c |-> 0, refs |-> <<1, 2, 3>>]>>}

PropTypes == {VT_STRING, VT_BOOL, VT_INT32, VT_INSTANCE, VT_VECTOR2}

\* What follows the PROP token in its chunk: END, an unknown token,
\* nothing, a PRNT token.
PropTails == {<<TOKEN_END>>, <<9>>, <<>>, PrntToken(<<2>>, <<-1>>)}

\* The referents of a layout, one per registration, with their class ids.
Registrations(layout) ==
    Concat([k \in 1 .. Len(layout) |->
               [j \in 1 .. Len(layout[k].refs) |->
                   [c |-> layout[k].c, ref |-> layout[k].refs[j]]]])

\* The number of referents whose last registration is under class id c.
HeldCount(layout, c) ==
    LET regs == Registrations(layout)
    IN  Cardinality({regs[k].ref : k \in
            {k \in 1 .. Len(regs) :
                regs[k].c = c /\ \A j \in k + 1 .. Len(regs) :
                                     regs[j].ref # regs[k].ref}})

\* The bytes of the i-th value of a PROP token of type vt.
ValueBytes(vt, i) ==
    IF vt = VT_STRING THEN EncStr(<<96 + i>>)
    ELSE IF vt = VT_BOOL THEN <<i % 2>>
    ELSE IF vt = VT_INT32 THEN EncI32(10 * i)
    ELSE IF vt = VT_INSTANCE THEN EncI32(i + 1)
    ELSE <<i, 0, 0, 0, 0, 0, i, 64>>

PropFile(in) ==
    [header |-> Header(<<>>, 0),
     chunks |-> <<
        Concat([k \in 1 .. Len(in.layout) |->
                   InstToken(in.layout[k].c, <<65 + in.layout[k].c>>,
                             in.layout[k].refs)]),
        PropToken(in.c, <<78>>, in.vt,
                  Concat([i \in 1 .. HeldCount(in.layout, in.c) |->
                             ValueBytes(in.vt, i)]))
            \o in.tail >>]

PropInit ==
    /\ input \in [layout : PropLayouts, c : {0, 1}, vt : PropTypes,
                  tail : PropTails]
    /\ data = FileBytes(PropFile(input))
    /\ pc = "verify_magic"
    /\ parser = NewParser(data)
    /\ trail = <<>>
    /\ fs = Unused /\ options = Unused /\ work = Unused /\ result = Unused

PropSpec == PropInit /\ [][Next]_vars

\* The token loop is about to read a PROP token.
AtProp ==
    pc = "tokens" /\ ~Exhausted(parser) /\ NextToken(parser) = TOKEN_PROP

\* The class id, the name and the value type of the PROP token at the
\* reader: [err, val, pos], pos where the values start.
PropHeader ==
    LET d == parser.reader.data
    IN  Then(read_varint(d, parser.reader.pos + 1), LAMBDA cid :
        Then(read_string(d, cid.pos), LAMBDA name :
        Then(read_byte(d, name.pos), LAMBDA vt :
            Ok([c |-> cid.val, name |-> name.val, vt |-> vt.val], vt.pos))))

\* The instances the map holds with class id c, in the order of the map.
Held(c) ==
    SelectSeq([j \in 1 .. Len(parser.instances) |-> parser.instances[j].obj],
              LAMBDA o : parser.heap[o].class_id = c)

\* The i-th of the values of type vt that lie one after the other from
\* pos: [err, val, pos].
RECURSIVE ValueAt(_, _, _)
ValueAt(vt, pos, i) ==
    IF i = 1 THEN ReadOne(vt, parser.reader.data, pos)
    ELSE Then(ReadOne(vt, parser.reader.data, pos), LAMBDA r :
             ValueAt(vt, r.pos, i - 1))

\* The value a decoded value is stored as: a referent becomes the instance
\* the map holds for it, or None.
StoredAs(vt, v) ==
    IF vt # VT_INSTANCE THEN v
    ELSE [t |-> "ref", v |-> IF v.v \in Keys(parser) THEN Lookup(parser, v.v)
                             ELSE 0]

\* The properties props hold value under name.
Holds(props, name, value) ==
    \E k \in 1 .. Len(props) : props[k].name = name /\ props[k].value = value

\* The properties of props under the names other than name.
Others(props, name) == SelectSeq(props, LAMBDA q : q.name # name)

\* The step of a PROP token with header h for the n instances objs.
Positional(h, objs, n) ==
    (Recognised(h.val.vt)
         /\ \A i \in 1 .. n : ValueAt(h.val.vt, h.pos, i).err = "none") =>
        /\ pc' = "tokens"
        /\ parser'.reader.pos =
               IF n = 0 THEN h.pos ELSE ValueAt(h.val.vt, h.pos, n).pos
        /\ Len(parser'.heap) = Len(parser.heap)
        /\ parser'.instances = parser.instances
        /\ \A i \in 1 .. n :
              /\ Holds(parser'.heap[objs[i]].properties, h.val.name,
                       StoredAs(h.val.vt, ValueAt(h.val.vt, h.pos, i).val))
              /\ Others(parser'.heap[objs[i]].properties, h.val.name)
                     = Others(parser.heap[objs[i]].properties, h.val.name)
        /\ \A o \in 1 .. Len(parser.heap) :
              parser.heap[o].class_id # h.val.c =>
                  parser'.heap[o].properties = parser.heap[o].properties

----------------------------------------------------------------------------
(* parse on files with a ProtectedString property: one INST token for two  *)
(* instances, then a chunk with one PROP token of two values.              *)

\* The bytes behind the u32 length of a ProtectedString value: plain text;
\* the zlib stream of "A"; that stream with a wrong Adler-32; the raw
\* DEFLATE stream of "A" as a fixed-Huffman block and as a stored block;
\* nothing.
ProtContents ==
    {<<65, 66>>,
     <<120, 156, 115, 4, 0, 0, 66, 0, 66>>,
     <<120, 156, 115, 4, 0, 0, 0, 0, 0>>,
     <<115, 4, 0>>,
     <<1, 1, 0, 254, 255, 65>>,
     <<>>}

ProtFile(in) ==
    [header |-> Header(<<>>, 0),
     chunks |-> <<
        InstToken(0, <<65>>, <<1, 2>>),
        PropToken(0, <<80>>, VT_PROTECTEDSTRING,
                  EncU32(Len(in.first)) \o in.first
                      \o EncU32(Len(in.second)) \o in.second)
            \o in.tail >>]

ProtInit ==
    /\ input \in [first : ProtContents, second : ProtContents,
                  tail : PropTails]
    /\ data = FileBytes(ProtFile(input))
    /\ pc = "verify_magic"
    /\ parser = NewParser(data)
    /\ trail = <<>>
    /\ fs = Unused /\ options = Unused /\ work = Unused /\ result = Unused

ProtSpec == ProtInit /\ [][Next]_vars

\* The bytes a ProtectedString value stands for when zlib is tried behind
\* 78 9C, raw DEFLATE otherwise, and the bytes are kept only when
\* decompression does not succeed.
DecompressedFirst(c) ==
    LET asis == [st |-> "ok", out |-> c]
        raw(r) == IF r.st = "ok" THEN r ELSE asis
        zlib(z) == IF z.st = "ok" THEN z ELSE raw(RawInflate(c))
    IN  (IF StartsWith(c, <<120, 156>>) THEN zlib(ZlibInflate(c))
         ELSE raw(RawInflate(c))).out

\* C21: for each ProtectedString value the parser reads a u32 length and
\* that many bytes; bytes that start with 78 9C are zlib-decompressed,
\* bytes that do not are given to raw DEFLATE, and only when decompression
\* does not succeed are the bytes used as they are.
C21_AsStated ==
    (pc = "returned" /\ Len(parser.heap) = 2) =>
        /\ HasProperty(1, <<80>>) /\ HasProperty(2, <<80>>)
        /\ PropertyOf(1, <<80>>)
               = Str(Utf8OrLatin1(DecompressedFirst(input.first)))
        /\ PropertyOf(2, <<80>>)
               = Str(Utf8OrLatin1(DecompressedFirst(input.second)))

\* The raw DEFLATE stream of "A" (73 04 00) is stored as the three bytes
\* themselves, next to a zlib stream that was decompressed.
C21_Failure ==
    /\ pc = "returned"
    /\ input.first = <<115, 4, 0>>
    /\ input.second = <<120, 156, 115, 4, 0, 0, 66, 0, 66>>
    /\ RawInflate(input.first).st = "ok"
    /\ RawInflate(input.first).out = <<65>>
    /\ PropertyOf(1, <<80>>) = Str(<<115, 4, 0>>)
    /\ PropertyOf(2, <<80>>) = Str(<<65>>)

----------------------------------------------------------------------------
(* Properties of the scripts the canonicalizer writes.                     *)

\* NULs stripped, lines stripped, empty lines dropped.
CleanedText(text) ==
    LET lines == SplitLines(StripNul(text))
        stripped == [n \in 1 .. Len(lines) |-> Strip(lines[n])]
    IN  JoinLines(SelectSeq(stripped, LAMBDA l : l # <<>>))

\* C22: every script body written by the canonicalizer is a cleaned result
\* (NULs stripped, lines stripped, empty lines dropped) of at least 10
\* characters, and of at least 120 characters unless it contains function,
\* return, local or require; a candidate whose cleaned result violates
\* this is never written.
C22_AsStated ==
    pc = "canon_done" =>
        \A w \in 1 .. Len(trail) :
            /\ trail[w].body = CleanedText(trail[w].orig)
            /\ Len(trail[w].body) >= 10
            /\ \/ Len(trail[w].body) >= 120
               \/ \E k \in strong_words : Contains(trail[w].body, k)

\* The candidate "  local x  \n" has twelve characters and is written as
\* the seven characters "local x".
C22_Failure ==
    /\ pc = "canon_done"
    /\ input = << <<32, 32, 108, 111, 99, 97, 108, 32, 120, 32, 32, 10>> >>
    /\ Len(trail) = 1
    /\ trail[1].body = <<108, 111, 99, 97, 108, 32, 120>>

\* The writes of the canonicalizer as the candidates alone determine them.
\* has, form and cleaned are HasCleaned, FormOf and CleanedOf of the
\* candidates, by position.
OrderedWrites(has, form, cleaned) ==
    LET same(k) == {m \in 1 .. Len(input) : has[m] /\ form[m] = form[k]}
        firsts == {k \in 1 .. Len(input) :
                      has[k] /\ \A m \in same(k) : k <= m}
        best(k) == CHOOSE m \in same(k) :
                       \A n \in same(k) :
                           \/ Len(cleaned[m]) > Len(cleaned[n])
                           \/ Len(cleaned[m]) = Len(cleaned[n]) /\ m <= n
        len(k) == Len(cleaned[best(k)])
        at(k) == 1 + Cardinality({j \in firsts :
                         len(j) > len(k) \/ (len(j) = len(k) /\ j < k)})
    IN  /\ Len(trail) = Cardinality(firsts)
        /\ \A k \in firsts :
              /\ trail[at(k)].body = cleaned[best(k)]
              /\ trail[at(k)].path =
                     [dir |-> "Scripts",
                      name |-> Sanitize(script_name(input[best(k)])
                                        \o <<95>> \o Dec(at(k) - 1))
                               \o EXT_LUA]
        /\ result = [w \in 1 .. Len(trail) |-> trail[w].path]

\* C23: after all candidates are consumed the dedup table is ordered by
\* cleaned length descending, entries of equal length in the order their
\* canonical key was first inserted, and output index i is the position in
\* that order; so the script file names and their contents written into an
\* empty output directory are determined by the input.
C23_IndexOrder ==
    pc = "canon_done" =>
        \A cleaned \in {SubSeq([k \in 1 .. Len(input) |-> CleanedOf(input[k])],
                               1, Len(input))} :
        \A has \in {SubSeq([k \in 1 .. Len(input) |-> HasCleaned(input[k])],
                           1, Len(input))} :
        \A form \in {SubSeq([k \in 1 .. Len(input) |->
                                collapse_ws(Strip(cleaned[k]))],
                            1, Len(input))} :
            OrderedWrites(has, form, cleaned)

\* "local y=34", the 120 characters, "local x=12": the long script is
\* script_0, the two of ten characters follow in the order of insertion.
C23_Witness ==
    /\ pc = "canon_done" /\ Len(input) = 3 /\ Len(trail) = 3
    /\ input[1] = <<108, 111, 99, 97, 108, 32, 121, 61, 51, 52>>
    /\ input[3] = <<108, 111, 99, 97, 108, 32, 120, 61, 49, 50>>
    /\ Len(trail[1].body) = 120
    /\ trail[2].body = input[1]
    /\ trail[3].body = input[3]
    /\ trail[2].path.name = <<115, 99, 114, 105, 112, 116, 95, 49>> \o EXT_LUA
    /\ trail[3].path.name = <<115, 99, 114, 105, 112, 116, 95, 50>> \o EXT_LUA

----------------------------------------------------------------------------
(* The scanning loops of the heuristic scavenger, one turn of a loop at a  *)
(* time: extract_lua_blocks_by_keywords, extract_merged_printable_blocks,  *)
(* extract_protected_strings_from_bytes, extract_jpegs and extract_pngs.   *)
(* input is [scan, buf, min_len, max_gap], data the buffer, work the       *)
(* locals of the loop that runs, result the list it builds; the image      *)
(* scans keep their writes in trail and fs.                                *)

\* max_expand of extract_lua_blocks_by_keywords and the reach to the left
\* of an occurrence.
MAX_EXPAND == 20000

LEFT_REACH == 2000

\* Buffers for the block scan: blocks of 30 and of 31 characters; two
\* blocks one after the other; a block inside a block; a function without
\* an end; an end inside a word; a NUL inside a block; no function.
LuaBuffers ==
    {<<102, 117, 110, 99, 116, 105, 111, 110, 32, 102, 40, 41, 32, 114, 101, 116, 117, 114, 110, 32, 49, 50, 51, 52, 53, 32, 32, 101, 110, 100>>,
     <<102, 117, 110, 99, 116, 105, 111, 110, 32, 102, 40, 41, 32, 114, 101, 116, 117, 114, 110, 32, 49, 50, 51, 52, 53, 54, 32, 32, 101, 110, 100>>,
     <<102, 117, 110, 99, 116, 105, 111, 110, 32, 102, 105, 114, 115, 116, 40, 41, 32, 114, 101, 116, 117, 114, 110, 32, 49, 49, 49, 49, 49, 49, 49, 32, 101, 110, 100, 32, 102, 117, 110, 99, 116, 105, 111, 110, 32, 115, 101, 99, 111, 110, 100, 40, 41, 32, 114, 101, 116, 117, 114, 110, 32, 50, 50, 50, 50, 32, 101, 110, 100>>,
     <<102, 117, 110, 99, 116, 105, 111, 110, 32, 97, 40, 41, 32, 102, 117, 110, 99, 116, 105, 111, 110, 32, 98, 40, 41, 32, 101, 110, 100, 32, 114, 101, 116, 117, 114, 110, 32, 98, 32, 101, 110, 100>>,
     <<102, 117, 110, 99, 116, 105, 111, 110, 32, 102, 40, 41, 32, 117, 110, 98, 97, 108, 97, 110, 99, 101, 100, 32, 97, 110, 100, 32, 108, 111, 110, 103, 101, 114, 32, 116, 104, 97, 110, 32, 116, 104, 105, 114, 116, 121>>,
     <<120, 32, 102, 117, 110, 99, 116, 105, 111, 110, 32, 103, 40, 41, 32, 115, 101, 110, 100, 40, 49, 50, 51, 52, 53, 54, 55, 56, 57, 48, 49, 50, 51, 52, 41, 32, 101, 110, 100>>,
     <<102, 117, 110, 99, 116, 105, 111, 110, 32, 102, 40, 41, 32, 114, 101, 116, 117, 114, 110>> \o <<0, 0>> \o <<32, 49, 50, 51, 52, 53, 54, 55, 32, 101, 110, 100>>,
     <<108, 111, 99, 97, 108, 32, 120>>}

\* len printable bytes b.
Fill(len, b) == [k \in 1 .. len |-> b]

\* Buffers for the merged regions: two runs of 60 around a gap of 48, 49,
\* 64 and 65 NULs; a run of 119 and one of 120; two runs of 40 around a gap
\* of 3 and a third after a gap of 70; a run of 75 of 80 bytes, 5 of them
\* not UTF-8; nothing printable.
MergedBuffers ==
    {Fill(60, 97) \o Fill(g, 0) \o Fill(60, 98) : g \in {48, 49, 64, 65}}
    \cup {Fill(119, 97), Fill(120, 97),
          Fill(40, 97) \o Fill(3, 1) \o Fill(40, 98) \o Fill(70, 0)
              \o Fill(80, 99),
          Fill(40, 97) \o Fill(5, 255) \o Fill(35, 98),
          Fill(3, 0)}

\* The arguments of extract_merged_printable_blocks: its defaults, and
\* those of the call of extract_from_bytes.
MergedArgs ==
    {[min_len |-> 80, max_gap |-> 64], [min_len |-> 120, max_gap |-> 48]}

ProtBuffers ==
    {<<>>, Envelope, Envelope \o <<0>> \o Envelope, PS_START \o Payload,
     PS_START \o <<120>> \o PS_END \o Envelope}

JpegBuffers ==
    {<<>>, JPEG_SOI \o <<1, 2>> \o JPEG_EOI, JPEG_SOI \o <<1, 2>>,
     <<0>> \o JPEG_SOI \o JPEG_EOI \o JPEG_SOI \o <<7>> \o JPEG_EOI,
     JPEG_SOI \o JPEG_SOI \o JPEG_EOI \o JPEG_EOI \o JPEG_SOI}

PngBuffers ==
    {pre \o ValidPng \o suf : pre \in Prefixes, suf \in {<<>>, PNG_SIG}}
    \cup {<<>>, PNG_SIG, PNG_SIG \o <<0, 0, 0, 200, 120, 120, 120, 120>>}

ScanInputs ==
    {[scan |-> "lua_find", buf |-> b, min_len |-> 0, max_gap |-> 0] :
        b \in LuaBuffers}
    \cup {[scan |-> "merged_outer", buf |-> b, min_len |-> a.min_len,
           max_gap |-> a.max_gap] : b \in MergedBuffers, a \in MergedArgs}
    \cup {[scan |-> "prot_find", buf |-> b, min_len |-> 0, max_gap |-> 0] :
             b \in ProtBuffers}
    \cup {[scan |-> "jpeg_find", buf |-> b, min_len |-> 0, max_gap |-> 0] :
             b \in JpegBuffers}
    \cup {[scan |-> "png_open", buf |-> b, min_len |-> 0, max_gap |-> 0] :
             b \in PngBuffers}

\* The locals of each scan before its loop.
ScanLocals(scan) ==
    IF scan = "lua_find"
    THEN [idx |-> 0, si |-> 0, rel |-> 0, j |-> 0, func_count |-> 0,
          end_count |-> 0]
    ELSE IF scan = "merged_outer" THEN [i |-> 0, start |-> 0, gap |-> 0, j |-> 0]
    ELSE IF scan = "prot_find" THEN [idx |-> 0]
    ELSE IF scan = "jpeg_find" THEN [start |-> 0]
    ELSE [start |-> 0, idx |-> 0, i |-> 0]

ScanInit ==
    /\ input \in ScanInputs
    /\ data = input.buf
    /\ pc = input.scan
    /\ work = ScanLocals(input.scan)
    /\ fs = (IF input.scan = "jpeg_find" THEN {Dir("Images")} ELSE {})
    /\ trail = <<>> /\ result = <<>>
    /\ parser = Unused /\ options = Unused

\* The window of text around the occurrence at si.
LuaText(si) ==
    Utf8Ignore(Slice(data, Max(0, si - LEFT_REACH),
                     Min(Len(data), si + MAX_EXPAND)))

\* Lines 149-166: the next occurrence of function and the window around it.
LuaFind ==
    /\ pc = "lua_find"
    /\ \E si \in {Find(data, KW_FUNCTION, work.idx)} :
       \E text \in {LuaText(si)} :
       \E rel \in {Find(text, KW_FUNCTION, 0)} :
           /\ si # -1
           /\ IF rel = -1
              THEN /\ work' = [work EXCEPT !.idx = si + Len(KW_FUNCTION)]
                   /\ pc' = "lua_find"
              ELSE /\ work' = [work EXCEPT !.si = si, !.rel = rel, !.j = rel,
                                           !.func_count = 0, !.end_count = 0]
                   /\ pc' = "lua_scan"
    /\ UNCHANGED <<input, data, parser, trail, fs, options, result>>

\* Lines 150-152 and 195-202: no occurrence is left; the list is deduped.
LuaReturn ==
    /\ pc = "lua_find"
    /\ Find(data, KW_FUNCTION, work.idx) = -1
    /\ result' = Dedupe(result)
    /\ pc' = "scan_done"
    /\ UNCHANGED <<input, data, parser, trail, fs, options, work>>

\* The keyword the scan meets from j in text: [none, isFunc, pos].
NextKeyword(text, j) ==
    LET fpos == Find(text, KW_FUNCTION, j)
        epos == Find(text, KW_END, j)
        isFunc == epos = -1 \/ (fpos # -1 /\ fpos < epos)
    IN  [none |-> j >= Len(text) \/ (fpos = -1 /\ epos = -1),
         isFunc |-> isFunc,
         pos |-> IF isFunc THEN fpos ELSE epos]

\* The counts after the keyword kw.
Counted(kw) ==
    [func_count |-> work.func_count + (IF kw.isFunc THEN 1 ELSE 0),
     end_count |-> work.end_count + (IF kw.isFunc THEN 0 ELSE 1)]

\* Lines 172-185: a keyword that leaves the counts unbalanced.
LuaKeyword ==
    /\ pc = "lua_scan"
    /\ \E text \in {LuaText(work.si)} :
       \E kw \in {NextKeyword(text, work.j)} :
           /\ ~kw.none
           /\ ~(Counted(kw).func_count > 0
                    /\ Counted(kw).end_count >= Counted(kw).func_count)
           /\ work' = [work EXCEPT
                  !.j = kw.pos + (IF kw.isFunc THEN 8 ELSE 3),
                  !.func_count = Counted(kw).func_count,
                  !.end_count = Counted(kw).end_count]
    /\ UNCHANGED <<input, pc, data, parser, trail, fs, options, result>>

\* Lines 186-194: the keyword that balances the counts; the candidate.
LuaBalanced ==
    /\ pc = "lua_scan"
    /\ \E text \in {LuaText(work.si)} :
       \E kw \in {NextKeyword(text, work.j)} :
           /\ ~kw.none
           /\ Counted(kw).func_count > 0
           /\ Counted(kw).end_count >= Counted(kw).func_count
           /\ \E candidate \in
                  {StripNul(Slice(text, work.rel, kw.pos + 3))} :
                  result' = IF Len(candidate) > 30
                            THEN Append(result, candidate) ELSE result
           /\ work' = [work EXCEPT
                  !.idx = work.si + Len(KW_FUNCTION),
                  !.j = kw.pos + (IF kw.isFunc THEN 8 ELSE 3),
                  !.func_count = Counted(kw).func_count,
                  !.end_count = Counted(kw).end_count]
    /\ pc' = "lua_find"
    /\ UNCHANGED <<input, data, parser, trail, fs, options>>

\* Lines 172-177 and 194: the text ends, or has no keyword left.
LuaUnbalanced ==
    /\ pc = "lua_scan"
    /\ \E text \in {LuaText(work.si)} :
       \E kw \in {NextKeyword(text, work.j)} : kw.none
    /\ work' = [work EXCEPT !.idx = work.si + Len(KW_FUNCTION)]
    /\ pc' = "lua_find"
    /\ UNCHANGED <<input, data, parser, trail, fs, options, result>>

\* Lines 215-216 and 239-240: the byte at i is not printable.
MergedSkip ==
    /\ pc = "merged_outer"
    /\ work.i < Len(data) /\ ~Printable(data[work.i + 1])
    /\ work' = [work EXCEPT !.i = work.i + 1]
    /\ UNCHANGED <<input, pc, data, parser, trail, fs, options, result>>

\* Lines 215-219: a run starts at i.
MergedStart ==
    /\ pc = "merged_outer"
    /\ work.i < Len(data) /\ Printable(data[work.i + 1])
    /\ work' = [work EXCEPT !.start = work.i, !.gap = 0, !.j = work.i + 1]
    /\ pc' = "merged_inner"
    /\ UNCHANGED <<input, data, parser, trail, fs, options, result>>

\* Lines 220-222: a printable byte at j.
MergedExtend ==
    /\ pc = "merged_inner"
    /\ work.j < Len(data) /\ Printable(data[work.j + 1])
    /\ work' = [work EXCEPT !.gap = 0, !.j = work.j + 1]
    /\ UNCHANGED <<input, pc, data, parser, trail, fs, options, result>>

\* Lines 223-228: a byte of a gap that is not yet longer than max_gap.
MergedGap ==
    /\ pc = "merged_inner"
    /\ work.j < Len(data) /\ ~Printable(data[work.j + 1])
    /\ work.gap + 1 <= input.max_gap
    /\ work' = [work EXCEPT !.gap = work.gap + 1, !.j = work.j + 1]
    /\ UNCHANGED <<input, pc, data, parser, trail, fs, options, result>>

\* Lines 220, 226-227 and 229-238: the run ends at j, at the end of the
\* buffer or at the byte that makes the gap longer than max_gap.
MergedClose ==
    /\ pc = "merged_inner"
    /\ IF work.j >= Len(data) THEN TRUE
       ELSE ~Printable(data[work.j + 1]) /\ work.gap + 1 > input.max_gap
    /\ \E s \in {StripNul(Utf8Ignore(Slice(data, work.start, work.j)))} :
           result' = IF Len(s) >= input.min_len THEN Append(result, s)
                     ELSE result
    /\ work' = [work EXCEPT
           !.i = work.j,
           !.gap = IF work.j >= Len(data) THEN work.gap ELSE work.gap + 1]
    /\ pc' = "merged_outer"
    /\ UNCHANGED <<input, data, parser, trail, fs, options>>

\* Lines 214 and 242-249: the buffer is used up; the list is deduped.
MergedReturn ==
    /\ pc = "merged_outer"
    /\ work.i >= Len(data)
    /\ result' = Dedupe(result)
    /\ pc' = "scan_done"
    /\ UNCHANGED <<input, data, parser, trail, fs, options, work>>

\* Lines 120-137: an envelope with its two markers.
ProtIter ==
    /\ pc = "prot_find"
    /\ \E hit \in {Find(data, PS_START, work.idx)} :
       \E ei \in {Find(data, PS_END, hit + Len(PS_START))} :
           /\ hit # -1 /\ ei # -1
           /\ \E s \in {StripNul(Utf8Ignore(
                            Slice(data, hit + Len(PS_START), ei)))} :
                  result' = IF Len(s) > 10 THEN Append(result, s) ELSE result
           /\ work' = [idx |-> ei + Len(PS_END)]
    /\ UNCHANGED <<input, pc, data, parser, trail, fs, options>>

\* Lines 121-127 and 138: a marker is missing.
ProtReturn ==
    /\ pc = "prot_find"
    /\ \E hit \in {Find(data, PS_START, work.idx)} :
           hit = -1 \/ Find(data, PS_END, hit + Len(PS_START)) = -1
    /\ pc' = "scan_done"
    /\ UNCHANGED <<input, data, parser, trail, fs, options, work, result>>

\* Lines 70-82: a JPEG with its two markers is written.
JpegIter ==
    /\ pc = "jpeg_find"
    /\ \E s \in {Find(data, JPEG_SOI, work.start)} :
       \E e \in {Find(data, JPEG_EOI, s + 2)} :
       \E path \in {safe_name(EMBEDDED \o Dec(Max(s, 0)), "Images", EXT_JPG, fs)} :
           /\ s # -1 /\ e # -1
           /\ fs' = fs \cup {path}
           /\ trail' = Append(trail, [path |-> path,
                                      body |-> Slice(data, s, e + 2),
                                      existed |-> path \in fs])
           /\ result' = Append(result, path)
           /\ work' = [start |-> e + 2]
    /\ UNCHANGED <<input, pc, data, parser, options>>

\* Lines 71-76 and 83: a marker is missing.
JpegReturn ==
    /\ pc = "jpeg_find"
    /\ \E s \in {Find(data, JPEG_SOI, work.start)} :
           s = -1 \/ Find(data, JPEG_EOI, s + 2) = -1
    /\ pc' = "scan_done"
    /\ UNCHANGED <<input, data, parser, trail, fs, options, work, result>>

ScanNext ==
    \/ LuaFind \/ LuaReturn \/ LuaKeyword \/ LuaBalanced \/ LuaUnbalanced
    \/ MergedSkip \/ MergedStart \/ MergedExtend \/ MergedGap
    \/ MergedClose \/ MergedReturn
    \/ ProtIter \/ ProtReturn
    \/ JpegIter \/ JpegReturn
    \/ PngOpen \/ PngFind \/ PngReturn \/ PngIend \/ PngChunk \/ PngNoIend

ScanSpec == ScanInit /\ [][ScanNext]_vars

\* The scans agree with the functions run in one piece.
ScanAgrees ==
    /\ (pc = "scan_done" /\ input.scan = "lua_find") =>
           result = extract_lua_blocks_by_keywords(data)
    /\ (pc = "scan_done" /\ input.scan = "merged_outer") =>
           result = extract_merged_printable_blocks(data, input.min_len,
                                                    input.max_gap)
    /\ (pc = "scan_done" /\ input.scan = "prot_find") =>
           result = extract_protected_strings_from_bytes(data)
    /\ (pc = "scan_done" /\ input.scan = "jpeg_find") =>
           trail = extract_jpegs(data, {}).log
    /\ pc = "png_done" => trail = extract_pngs(data, {}).log

----------------------------------------------------------------------------
(* Properties of the block scan and of the merged regions.                 *)

\* No two elements of the list are equal.
NoRepeats(list) ==
    \A a, b \in 1 .. Len(list) : list[a] = list[b] => a = b

\* The text from the opening function at rel through the end at pos.
BlockText(rel, pos) == StripNul(Slice(LuaText(work.si), rel, pos + 3))

\* C24: for each occurrence of function in the buffer the forward scan
\* starts at that occurrence and stops at the first keyword at which the
\* count of end is at least the count of function; the candidate is the
\* text from the opening function through that closing end; it is
\* discarded exactly when it is shorter than 30 characters; the returned
\* list has no two equal candidates.
C24_AsStated ==
    [][/\ (pc = "lua_find" /\ pc' = "lua_scan") =>
              /\ work'.si = Find(data, KW_FUNCTION, work.idx)
              /\ work'.rel = work'.si - Max(0, work'.si - LEFT_REACH)
              /\ work'.j = work'.rel
       /\ (pc = "lua_scan" /\ pc' = "lua_scan") =>
              work'.end_count < work'.func_count
       /\ (pc = "lua_scan" /\ pc' = "lua_find"
               /\ ~NextKeyword(LuaText(work.si), work.j).none) =>
              /\ work'.end_count >= work'.func_count
              /\ \A kw \in {NextKeyword(LuaText(work.si), work.j)} :
                     IF Len(BlockText(work.rel, kw.pos)) < 30
                     THEN result' = result
                     ELSE result' = Append(result, BlockText(work.rel, kw.pos))
       /\ (pc = "lua_find" /\ pc' = "scan_done") =>
              /\ NoRepeats(result')
              /\ \A a \in 1 .. Len(result) :
                     \E b \in 1 .. Len(result') : result'[b] = result[a]
      ]_vars

\* A balanced block of exactly 30 characters is the whole buffer, and the
\* scan returns nothing.
C24_Failure ==
    /\ pc = "scan_done" /\ input.scan = "lua_find"
    /\ data = <<102, 117, 110, 99, 116, 105, 111, 110, 32, 102, 40, 41, 32, 114, 101, 116, 117, 114, 110, 32, 49, 50, 51, 52, 53, 32, 32, 101, 110, 100>>
    /\ Len(data) = 30
    /\ result = <<>>

\* C25: a run that starts at a printable byte (TAB or 0x20..0x7E) is
\* extended across any gap of at most 64 consecutive non-printable bytes
\* and is terminated by a gap longer than 64; in the script path the region
\* is emitted exactly when its decoded, NUL-stripped length is at least 120
\* (at least 80 otherwise).
C25_AsStated ==
    [][/\ (pc = "merged_outer" /\ work.i < Len(data)) =>
              (pc' = "merged_inner" <=> Printable(data[work.i + 1]))
       /\ (pc = "merged_inner" /\ work.j < Len(data)) =>
              IF Printable(data[work.j + 1]) \/ work.gap + 1 <= 64
              THEN pc' = "merged_inner" /\ work'.j = work.j + 1
              ELSE pc' = "merged_outer"
       /\ (pc = "merged_inner" /\ pc' = "merged_outer") =>
              \A s \in {StripNul(Utf8Ignore(Slice(data, work.start, work.j)))} :
                  IF Len(s) >= (IF input.max_gap = 48 THEN 120 ELSE 80)
                  THEN result' = Append(result, s)
                  ELSE result' = result
      ]_vars

\* With the arguments of the script path two runs of 60 around 49 NULs are
\* two regions, and neither is emitted.
C25_Failure ==
    /\ pc = "scan_done" /\ input.scan = "merged_outer"
    /\ input.min_len = 120 /\ input.max_gap = 48
    /\ data = Fill(60, 97) \o Fill(49, 0) \o Fill(60, 98)
    /\ result = <<>>

----------------------------------------------------------------------------
(* Progress of the scanning loops.                                         *)

\* The scans under weak fairness of their steps: a scan that can take a
\* step takes one.
ScanLive == ScanInit /\ [][ScanNext]_vars /\ WF_vars(ScanNext)

ScanEnded == pc \in {"scan_done", "png_done"}

\* A step closes a turn of an outer loop, or is a turn of an inner loop,
\* and moves the cursor of that loop forward.
CursorMoves ==
    /\ (pc = "lua_scan" /\ pc' = "lua_find") => work'.idx > work.idx
    /\ (pc = "lua_find" /\ pc' = "lua_find") => work'.idx > work.idx
    /\ (pc = "lua_scan" /\ pc' = "lua_scan") => work'.j > work.j
    /\ (pc = "merged_outer" /\ pc' = "merged_outer") => work'.i > work.i
    /\ (pc = "merged_inner" /\ pc' = "merged_outer") => work'.i > work.start
    /\ (pc = "merged_inner" /\ pc' = "merged_inner") => work'.j > work.j
    /\ (pc = "prot_find" /\ pc' = "prot_find") => work'.idx > work.idx
    /\ (pc = "jpeg_find" /\ pc' = "jpeg_find") => work'.start > work.start
    /\ (pc = "png_walk" /\ pc' = "png_find") => work'.start > work.start
    /\ (pc = "png_walk" /\ pc' = "png_walk") => work'.i > work.i

\* C30: on every finite buffer each scanning loop of the heuristic
\* scavenger (extract_pngs, extract_jpegs,
\* extract_protected_strings_from_bytes, extract_lua_blocks_by_keywords,
\* extract_merged_printable_blocks) strictly increases its scan cursor on
\* every iteration, also after a malformed PNG chunk walk or an unbalanced
\* function, so each of them eventually finishes.
C30_ScavengerTerminates == [][CursorMoves]_vars /\ <>ScanEnded

\* The PNG scan has ended after a walk that ran off the buffer, and the
\* block scan after a function without an end.
C30_Witness ==
    \/ /\ pc = "png_done" /\ data = ValidPng \o PNG_SIG
       /\ Len(trail) = 1 /\ work.start = Len(ValidPng) + 1
    \/ /\ pc = "scan_done" /\ input.scan = "lua_find"
       /\ Contains(data, KW_FUNCTION) /\ ~Contains(data, KW_END)
       /\ work.idx = Find(data, KW_FUNCTION, 0) + 8

----------------------------------------------------------------------------
(* Properties of the asset references.                                     *)

\* rbxasset, http, www, .com, asset, sound, image
ASSET_WORDS ==
    {<<114, 98, 120, 97, 115, 115, 101, 116>>, <<104, 116, 116, 112>>,
     <<119, 119, 119>>, <<46, 99, 111, 109>>, <<97, 115, 115, 101, 116>>,
     <<115, 111, 117, 110, 100>>, <<105, 109, 97, 103, 101>>}

\* The number of elements of the list equal to x.
Count(list, x) == Cardinality({k \in 1 .. Len(list) : list[k] = x})

\* The number of places the reference text t ended up in: sound_refs,
\* image_refs, and the files of References.
Places(t) ==
    Count(result.sound_refs, t) + Count(result.image_refs, t)
    + Cardinality({w \in WritesIn("References") : trail[w].body = t})

\* C26: every printable string (a run of at least 8 printable bytes) that
\* contains, case-insensitively, any of rbxasset, http, www, .com, asset,
\* sound or image is retained as an asset reference, and each retained
\* string ends up in exactly one of sound_refs, image_refs or the generic
\* assets list.
C26_AsStated ==
    pc = "x_returned" =>
        \A strings \in {extract_ascii_strings(input, 8)} :
        \A k \in 1 .. Len(strings) :
            (\E x \in ASSET_WORDS : Contains(Lower(strings[k]), x)) =>
                Places(Strip(SelectSeq(strings[k], IsPrintable))) = 1

\* Of the three references only http://ok.com/audio is retained, as a
\* sound reference; nothing is written to References.
C26_Failure ==
    /\ pc = "x_returned" /\ input = RefsFile
    /\ result.sound_refs =
           << <<104, 116, 116, 112, 58, 47, 47, 111, 107, 46, 99, 111, 109, 47, 97, 117, 100, 105, 111>> >>
    /\ result.image_refs = <<>> /\ result.assets = <<>>
    /\ WritesIn("References") = {}

----------------------------------------------------------------------------
(* parse on files whose one chunk is a sequence of INST, PROP and PRNT     *)
(* tokens over the referents 1 and 2.                                      *)

\* The longest sequence of tokens in the chunk.
MaxTokens == 3

GraphTokens ==
    {InstToken(0, <<65>>, <<1, 2>>),
     InstToken(0, <<65>>, <<1>>),
     InstToken(1, <<66>>, <<2>>),
     PrntToken(<<1, 2>>, <<2, -1>>),
     PrntToken(<<2, 1>>, <<1, -1>>),
     PropToken(0, <<78>>, VT_BOOL, <<1, 0>>)}

\* What ends the chunk: END, an unknown token, the end of the payload.
GraphTails == {<<TOKEN_END>>, <<9>>, <<>>}

GraphInit ==
    /\ input \in [tokens : UNION {[1 .. n -> GraphTokens] : n \in 1 .. MaxTokens},
                  tail : GraphTails]
    /\ data = FileBytes([header |-> Header(<<>>, 0),
                         chunks |-> << Concat(input.tokens) \o input.tail >>])
    /\ pc = "verify_magic"
    /\ parser = NewParser(data)
    /\ trail = <<>>
    /\ fs = Unused /\ options = Unused /\ work = Unused /\ result = Unused

GraphSpec == GraphInit /\ [][Next]_vars

\* The object o is the instance the map holds under o's own referent.
Current(o) ==
    /\ parser.heap[o].referent \in Keys(parser)
    /\ Lookup(parser, parser.heap[o].referent) = o

\* The objects reached from the map and from the root through the children
\* lists, by rounds.
RECURSIVE ReachedFrom(_)
ReachedFrom(set) ==
    LET next == set \cup UNION {{parser.heap[o].children[k] :
                                    k \in 1 .. Len(parser.heap[o].children)} :
                                o \in set}
    IN  IF next = set THEN set ELSE ReachedFrom(next)

Reachable ==
    ReachedFrom({parser.instances[i].obj : i \in 1 .. Len(parser.instances)}
                \cup (IF parser.root = 0 THEN {} ELSE {parser.root}))

\* C27: after any sequence of INST, PROP and PRNT tokens, also one with an
\* INST that registers a referent the map already has, every key k of the
\* instance map maps to an instance whose referent is k, and the root (when
\* set) and every member of every children list is the instance stored in
\* the map under its own referent: no reachable node is an instance the
\* map no longer holds.
C27_AsStated ==
    /\ \A i \in 1 .. Len(parser.instances) :
           parser.heap[parser.instances[i].obj].referent
               = parser.instances[i].key
    /\ \A o \in Reachable : Current(o)

\* INST(1, 2), PRNT(1 under 2, 2 the root), INST(1): the root is the
\* instance of referent 2, its one child has referent 1 and is not the
\* instance the map holds under 1.
C27_Failure ==
    /\ pc = "returned"
    /\ input.tokens = <<InstToken(0, <<65>>, <<1, 2>>),
                        PrntToken(<<1, 2>>, <<2, -1>>),
                        InstToken(0, <<65>>, <<1>>)>>
    /\ parser.root = Lookup(parser, 2)
    /\ Len(parser.heap[parser.root].children) = 1
    /\ parser.heap[parser.heap[parser.root].children[1]].referent = 1
    /\ parser.heap[parser.root].children[1] # Lookup(parser, 1)

----------------------------------------------------------------------------
(* parse on files with a PROP token whose values fail part-way.  The first *)
(* chunk registers three instances of class 0 and one of class 1 and sets  *)
(* the property N of the three; the second chunk has a PROP token for N of *)
(* class 0 whose value number `bad` cannot be decoded (0: none).           *)

FailTypes == {VT_STRING, VT_INT32, VT_CFRAME}

\* The bytes of value i of a failing PROP token: a good value, or the bad
\* one: a string of the byte FF, an Int32 of one byte, a CFrame with the
\* rotation discriminator 99.
FailValue(vt, i, isBad) ==
    IF vt = VT_STRING THEN (IF isBad THEN EncStr(<<255>>) ELSE EncStr(<<96 + i>>))
    ELSE IF vt = VT_INT32 THEN (IF isBad THEN <<7>> ELSE EncI32(10 * i))
    ELSE Fill(12, i) \o (IF isBad THEN <<99>> ELSE <<2>>)

\* The values up to the bad one; an Int32 cut short ends the values.
FailValues(vt, bad) ==
    Concat([i \in 1 .. (IF bad = 0 \/ vt # VT_INT32 THEN 3 ELSE bad) |->
               FailValue(vt, i, i = bad)])

AtomFile(in) ==
    [header |-> Header(<<>>, 0),
     chunks |-> <<
        InstToken(0, <<65>>, <<1, 2, 3>>) \o InstToken(1, <<66>>, <<4>>)
            \o PropToken(0, <<78>>, in.vt,
                         Concat([i \in 1 .. 3 |-> FailValue(in.vt, i + 3, FALSE)])),
        PropToken(0, <<78>>, in.vt, FailValues(in.vt, in.bad)) \o in.tail >>]

AtomInit ==
    /\ input \in [vt : FailTypes, bad : 0 .. 3, tail : PropTails]
    /\ data = FileBytes(AtomFile(input))
    /\ pc = "verify_magic"
    /\ parser = NewParser(data)
    /\ trail = <<>>
    /\ fs = Unused /\ options = Unused /\ work = Unused /\ result = Unused

AtomSpec == AtomInit /\ [][Next]_vars

\* The step of a PROP token with header h for the n instances objs: when
\* the values do not all decode, no property map changes; when they do,
\* every one of the instances has its value.
AllOrNone(h, objs, n) ==
    (Recognised(h.val.vt) /\ n > 0) =>
        IF ValueAt(h.val.vt, h.pos, n).err # "none"
        THEN /\ Len(parser'.heap) = Len(parser.heap)
             /\ \A o \in 1 .. Len(parser.heap) :
                    parser'.heap[o].properties = parser.heap[o].properties
        ELSE \A i \in 1 .. n :
                 Holds(parser'.heap[objs[i]].properties, h.val.name,
                       StoredAs(h.val.vt, ValueAt(h.val.vt, h.pos, i).val))

\* C28: if decoding the values of a PROP token with a recognised value
\* type fails part-way (end of chunk, invalid CFrame discriminator,
\* undecodable string), no instance's property map is modified by that
\* token: either all N instances of the class receive the property or none
\* does.
C28_PropAtomicity ==
    [][(AtProp /\ PropHeader.err = "none") =>
           \A h \in {PropHeader} : \A objs \in {Held(h.val.c)} :
               AllOrNone(h, objs, Len(objs))]_vars

\* The third of three strings is the byte FF: the parse has returned and
\* the three instances still have the strings the first chunk gave them.
C28_Witness ==
    /\ pc = "returned"
    /\ input.vt = VT_STRING /\ input.bad = 3 /\ input.tail = <<TOKEN_END>>
    /\ Len(trail) = 2 /\ trail[2].closed = "error"
    /\ trail[2].toks[1].tok = TOKEN_PROP
    /\ trail[2].toks[1].err = "UnicodeDecodeError"
    /\ \A o \in 1 .. 3 :
           parser.heap[o].properties
               = <<[name |-> <<78>>, value |-> Str(<<99 + o>>)]>>


----------------------------------------------------------------------------
(* The reader after a chunk, on the files of Spec.                         *)

\* The length the header of the chunk at file position `at` declares.
DeclaredLength(at) == read_u32(data, at).val

\* The token loop of the last chunk of the trail ends in this step.
ChunkEnds ==
    /\ Len(trail) > 0
    /\ Len(trail') = Len(trail)
    /\ trail[Len(trail)].closed = "open"
    /\ trail'[Len(trail)].closed # "open"

\* The active reader is the reader of the file, just past the payload of
\* the chunk whose header is at `at`.
FileReaderPast(p, at) ==
    /\ p.reader.data = data
    /\ p.reader.pos = at + 8 + DeclaredLength(at)

\* C29: after each chunk is processed, however its token loop ended
\* (payload exhausted, END token, unknown token, or an error inside a token
\* handler), the parser's active reader is again the file-level reader, and
\* that reader's position is exactly the end of the chunk's declared
\* payload (position before the header + 8 + declared length), independent
\* of the chunk's contents.
C29_ReaderRestored ==
    [][ChunkEnds =>
           /\ trail'[Len(trail)].closed
                  \in {"exhausted", "end", "unknown_token", "error"}
           /\ FileReaderPast(parser', trail[Len(trail)].at)]_vars

\* A handler has raised in the middle of the payload of a chunk that
\* another chunk follows: the file reader stands at the next header, and
\* the next chunk is read from there.
C29_Witness ==
    /\ Len(trail) >= 2
    /\ trail[1].closed = "error"
    /\ Len(trail[1].toks) >= 1
    /\ trail[1].toks[Len(trail[1].toks)].at + 1 < Len(trail[1].payload)
    /\ trail[2].at = trail[1].at + 8 + DeclaredLength(trail[1].at)
    /\ parser.old_reader.data = data

====
